---- MODULE Spec2Model ----
(***************************************************************************)
(* A model of the WhatsApp Web connection engine (src/src/conn.rs), the    *)
(* requests applied to it (src/src/req.rs) and its session state           *)
(* (src/src/session.rs).                                                    *)
(*                                                                         *)
(* The engine is the struct WebConnection.  Its fields are the variables   *)
(* of the model; its methods are operators over a record `c` holding the   *)
(* fields, returning the record after the call together with the Result    *)
(* of the call.  The entry points the scheduler drives (Stream::poll_next, *)
(* Sink::start_send, Sink::poll_flush) are the actions.                    *)
(***************************************************************************)
EXTENDS Integers, Sequences, FiniteSets, TLC

VARIABLES
    session_state,   \* WebConnection.session_state
    callbacks,       \* WebConnection.callbacks : tag -> CallbackType
    tag_counter,     \* WebConnection.tag_counter
    epoch,           \* WebConnection.epoch
    response_timer,  \* WebConnection.response_timer is Some(_)
    ws_outbox,       \* WebConnection.ws_outbox
    outbox,          \* WebConnection.outbox
    user_jid,        \* WebConnection.user_jid
    pc,              \* position of poll_next: "idle", inside its receive loop, or "panicked"
    g_frames,        \* history: tag, kind and epoch of every frame put in ws_outbox, in order
    g_events,        \* history: number of events generated so far
    g_recv,          \* history: number of inbound frames handed to on_message so far
    g_invoked,       \* history: per callback registration, how often its handler ran
    g_alloc,         \* history: the tags returned by alloc_message_tag, in order
    wire,            \* history: ids of the frames handed to the WebSocket, in order
    yielded,         \* history: the events poll_next returned (id, source frame), in order
    timer_elapsed,   \* the deadline of the armed response timer has passed
    g_failed,        \* history: the first error the engine raised in poll_next, and what raised it
    pure,            \* the input and the result of a function that runs apart from the engine
    lastOp           \* history: the entry point that ran last, its input and its result

vars == <<session_state, callbacks, tag_counter, epoch, response_timer, ws_outbox,
          outbox, user_jid, pc, g_frames, g_events, g_recv, g_invoked, g_alloc,
          wire, yielded, timer_elapsed, g_failed, pure, lastOp>>

----------------------------------------------------------------------------
(* Bounds of the model.                                                    *)

\* Frames put in the outbound queue over one run.
MaxFrames == 3
\* Largest epoch a run reaches.
MaxEpoch == 2
\* Inbound WebSocket frames received over one run.
MaxRecv == 2

----------------------------------------------------------------------------
(* Values.                                                                 *)

None == "None"

\* Option<T>: the empty sequence for None, a one-element sequence for Some.
NoneOpt == << >>
Some(v) == <<v>>

\* u32::to_string (Display for integers): the decimal rendering, as a
\* sequence of characters, most significant digit first.
DigitChar == <<"0", "1", "2", "3", "4", "5", "6", "7", "8", "9">>

RECURSIVE to_string(_)
to_string(n) ==
    IF n < 10 THEN <<DigitChar[n + 1]>>
    ELSE Append(to_string(n \div 10), DigitChar[(n % 10) + 1])

\* Message ids a caller may put in a ChatMessage (MessageId is a public
\* newtype over String): one as long as a server message id, one that reads
\* like a small decimal number.
MidLong == <<"3", "E", "B", "0", "A", "1", "B", "2", "C", "3", "D">>
MidShort == <<"1">>
MessageIds == {MidLong, MidShort}

\* str::len counts the bytes of the UTF-8 encoding, not the characters
\* (a character is named by itself, or by its code point).
Utf8Width(ch) == IF ch = "U+00E9" THEN 2 ELSE 1

RECURSIVE str_len(_)
str_len(str) == IF str = << >> THEN 0 ELSE Utf8Width(Head(str)) + str_len(Tail(str))

\* A tag of six characters that takes twelve bytes.
MidWide == <<"U+00E9", "U+00E9", "U+00E9", "U+00E9", "U+00E9", "U+00E9">>

\* A tag of ten characters and ten bytes.
MidTen == <<"3", "E", "B", "0", "A", "1", "B", "2", "C", "3">>

\* A tag the server chooses for its own spontaneous frames.
ServerTag == <<"s", "1">>

TheJid == [id |-> "4915", is_group |-> FALSE]
OwnJid == [id |-> "4917", is_group |-> FALSE]
TheUuid == "uuid-1"

\* Keys of a session: the pair negotiated by a new login, and the pair
\* restored from a saved session.
SavedSession ==
    [client_token |-> "ct-saved", server_token |-> "st-saved", client_id |-> "cid-saved",
     enc |-> "enc-saved", mac |-> "mac-saved"]

Ok(c) == [c |-> c, err |-> "Ok"]
Err(c, e) == [c |-> c, err |-> e]

----------------------------------------------------------------------------
(* Session state (src/src/session.rs).                                     *)

\* SessionState::pending_new: a fresh key pair and client id.
pending_new ==
    [variant |-> "PendingNew", private_key |-> "Some", public_key |-> "pub-new",
     client_id |-> "cid-new"]

\* SessionState::pending_persistent.
pending_persistent(sess) ==
    [variant |-> "PendingPersistent", persistent_session |-> sess]

Established(sess) ==
    [variant |-> "Established", persistent_session |-> sess]

----------------------------------------------------------------------------
(* Collaborators whose code is outside the modelled files: crypto, the     *)
(* frame codec, the JSON protocol and the node protocol.  They are         *)
(* modelled from their documented contracts.                               *)

\* crypto::sign_and_encrypt_message: the wire bytes bind the plaintext to
\* the two keys.
sign_and_encrypt_message(enc, mac, plain) ==
    [enc |-> enc, mac |-> mac, plain |-> plain]

\* crypto::verify_and_decrypt_message: fails with Crypto unless the bytes
\* were produced under the same keys.
verify_and_decrypt_message(enc, mac, bytes) ==
    IF bytes.enc = enc /\ bytes.mac = mac
    THEN [ok |-> TRUE, val |-> bytes.plain]
    ELSE [ok |-> FALSE, err |-> "Crypto"]

\* base64::decode of the secret of a ConnectionAck.
base64_decode(secret) ==
    IF secret = "not-base64" THEN [ok |-> FALSE, err |-> "Base64"]
    ELSE [ok |-> TRUE, val |-> secret]

\* crypto::calculate_secret_keys: derives (enc, mac) from the server secret
\* and the private key, or rejects the secret.
calculate_secret_keys(secret, private_key) ==
    IF secret = "secret-valid"
    THEN [ok |-> TRUE, enc |-> "enc-new", mac |-> "mac-new"]
    ELSE [ok |-> FALSE, err |-> "Crypto"]

\* base64::encode, kept apart from the bytes it encodes.
base64_encode(bytes) == [base64 |-> bytes]

\* QrCode::new: fails with Qr when the data exceeds what a QR code holds.
QrCode_new(data) ==
    IF data[1] = "ref-too-long" THEN [ok |-> FALSE, err |-> "Qr"]
    ELSE [ok |-> TRUE, val |-> [qr |-> data]]

\* crypto::sign_challenge: HMAC of the challenge under the mac key.
sign_challenge(mac, challenge) == [hmac_key |-> mac, over |-> challenge]

\* WebsocketMessage::serialize: a text frame for JSON, a binary frame for
\* encrypted payloads, both carrying `tag,payload`.
serialize(msg) ==
    [ws |-> IF msg.payload.kind = "Json" THEN "Text" ELSE "Binary",
     tag |-> msg.tag, payload |-> msg.payload]

\* The keepalive text frame "?,,".
Keepalive == [ws |-> "Text", text |-> "?,,"]

\* A frame WebsocketMessage::deserialize cannot split into tag and payload.
JunkFrame == [ws |-> "Text", text |-> "no comma"]

\* WebsocketMessage::deserialize: None for a frame that is not `tag,payload`.
deserialize(m) ==
    IF "tag" \in DOMAIN m THEN Some([tag |-> m.tag, payload |-> m.payload]) ELSE NoneOpt

\* JSON documents the server sends, by what the parsers read from them.
JsonInitOk == [shape |-> "object", status |-> 200, ref |-> "R", t |-> None]
JsonInitLong == [shape |-> "object", status |-> 200, ref |-> "ref-too-long", t |-> None]
JsonStatus(n) == [shape |-> "object", status |-> n, ref |-> None, t |-> "1700000000"]
JsonConn(secret) == [shape |-> "array", head |-> "Conn", secret |-> secret]
JsonChallenge == [shape |-> "array", head |-> "Cmd", type |-> "challenge", challenge |-> "nonce"]
JsonDisconnect(kind) == [shape |-> "array", head |-> "Cmd", type |-> "disconnect", kind |-> kind]
JsonPresence == [shape |-> "array", head |-> "Presence"]
JsonMsgAck == [shape |-> "array", head |-> "Msg", cmd |-> "ack"]
JsonJunk == [shape |-> "other"]

\* json_protocol::parse_response_status: Ok for status 200, StatusCode(n)
\* for another status, JsonFieldMissing when there is no status.
parse_response_status(j) ==
    IF j.shape # "object" THEN "JsonFieldMissing"
    ELSE IF j.status = 200 THEN "Ok" ELSE "StatusCode"

\* json_protocol::parse_init_response: the `ref` of a status-200 response.
parse_init_response(j) ==
    IF j.shape # "object" THEN [ok |-> FALSE, err |-> "JsonFieldMissing"]
    ELSE IF j.status # 200 THEN [ok |-> FALSE, err |-> "StatusCode"]
    ELSE IF j.ref = None THEN [ok |-> FALSE, err |-> "JsonFieldMissing"]
    ELSE [ok |-> TRUE, val |-> j.ref]

\* json_protocol::LowLevelAck::deserialize: status code and timestamp.
LowLevelAck_deserialize(j) ==
    IF j.shape # "object" \/ j.t = None THEN [ok |-> FALSE, err |-> "JsonFieldMissing"]
    ELSE [ok |-> TRUE, status_code |-> j.status, timestamp |-> j.t]

\* json_protocol::ServerMessage::deserialize: the spontaneous server
\* messages, or an error for any other document.
ServerMessage_deserialize(j) ==
    IF j.shape # "array" THEN [ok |-> FALSE, err |-> "JsonFieldMissing"]
    ELSE IF j.head = "Conn"
    THEN [ok |-> TRUE, val |-> [msg |-> "ConnectionAck", user_jid |-> OwnJid,
              client_token |-> "ct-fresh", server_token |-> "st-fresh", secret |-> j.secret]]
    ELSE IF j.head = "Cmd" /\ j.type = "challenge"
    THEN [ok |-> TRUE, val |-> [msg |-> "ChallengeRequest", challenge |-> j.challenge]]
    ELSE IF j.head = "Cmd" /\ j.type = "disconnect"
    THEN [ok |-> TRUE, val |-> [msg |-> "Disconnect", kind |-> j.kind]]
    ELSE IF j.head = "Presence"
    THEN [ok |-> TRUE, val |-> [msg |-> "PresenceChange", jid |-> TheJid]]
    ELSE IF j.head = "Msg"
    THEN [ok |-> TRUE, val |-> [msg |-> "MessageAck", message_id |-> MidLong]]
    ELSE [ok |-> FALSE, err |-> "JsonFieldMissing"]

\* Application messages (node_protocol::AppMessage) and their events.
MessagesEvents(event_type, events) ==
    [v |-> "MessagesEvents", event_type |-> event_type, events |-> events]

\* AppMessage::serialize(epoch): the node of an outbound app message.
AppMessage_serialize(app_message, e) == [app |-> app_message, epoch |-> e]

\* Node::serialize / Node::deserialize: bytes of a node, and back; bytes
\* that are no node fail with InvalidTag.
Node_serialize(node) == [node |-> node]

Node_deserialize(bytes) ==
    IF "node" \in DOMAIN bytes THEN [ok |-> TRUE, val |-> bytes.node]
    ELSE [ok |-> FALSE, err |-> "InvalidTag"]

\* Bytes that are no node.
GarbageBytes == [garbage |-> TRUE]

\* AppMessage::deserialize: the app message a node carries, if it is one.
AppMessage_deserialize(node) ==
    IF "app" \in DOMAIN node THEN [ok |-> TRUE, val |-> node.app]
    ELSE [ok |-> FALSE, err |-> "NodeAttributeMissing"]

\* Nodes the server sends: a message-history response, and two app messages.
NodeHistory == [history |-> "messages"]
NodeRelay == [app |-> MessagesEvents("Relay", <<[e |-> "Message", msg |-> "m1"], [e |-> "Battery", level |-> 80]>>)]
NodeContacts == [app |-> [v |-> "Contacts", contacts |-> <<"c1">>]]

----------------------------------------------------------------------------
(* Jids (src/src/lib.rs).  Strings are sequences of characters.            *)

SuffixGroup == <<"@", "g", ".", "u", "s">>
SuffixIndividual == <<"@", "c", ".", "u", "s">>
SuffixWhatsapp == <<"@", "s", ".", "w", "h", "a", "t", "s", "a", "p", "p", ".", "n", "e", "t">>
SuffixBroadcast == <<"@", "b", "r", "o", "a", "d", "c", "a", "s", "t">>

\* A variant of Jid::to_string that gives every jid the suffix @c.us.
Jid_to_string_individual(jid) == jid.id \o SuffixIndividual

\* Jid::to_string, and Display for Jid.
Jid_to_string(jid) == jid.id \o (IF jid.is_group THEN SuffixGroup ELSE SuffixIndividual)

\* str::find: the position of the first ch in str, or no position.
find(str, ch) ==
    IF \E i \in DOMAIN str : str[i] = ch
    THEN Some(CHOOSE i \in DOMAIN str : str[i] = ch /\ \A k \in 1..(i - 1) : str[k] # ch)
    ELSE NoneOpt

\* Jid::from_str: the text before the first @ is the id, the rest says
\* whether the jid is a group.
Jid_from_str(jid) ==
    LET at == find(jid, "@")
    IN IF at = NoneOpt THEN [ok |-> FALSE, err |-> "jid missing @"]
       ELSE LET id == SubSeq(jid, 1, at[1] - 1)
                surfix == SubSeq(jid, at[1], Len(jid))
            IN CASE surfix = SuffixIndividual -> [ok |-> TRUE, val |-> [id |-> id, is_group |-> FALSE]]
                 [] surfix = SuffixGroup -> [ok |-> TRUE, val |-> [id |-> id, is_group |-> TRUE]]
                 [] surfix = SuffixWhatsapp -> [ok |-> TRUE, val |-> [id |-> id, is_group |-> FALSE]]
                 [] surfix = SuffixBroadcast -> [ok |-> TRUE, val |-> [id |-> id, is_group |-> FALSE]]
                 [] OTHER -> [ok |-> FALSE, err |-> "invalid surfix"]

\* char::is_digit(10).
is_digit(ch) == ch \in {"0", "1", "2", "3", "4", "5", "6", "7", "8", "9"}

\* Jid::from_phonenumber: one leading + is removed; the rest must be digits.
Jid_from_phonenumber(phonenumber) ==
    LET number == IF phonenumber # << >> /\ Head(phonenumber) = "+"
                  THEN Tail(phonenumber) ELSE phonenumber
    IN IF \E i \in DOMAIN number : ~is_digit(number[i])
       THEN [ok |-> FALSE, err |-> "not a valid phonenumber"]
       ELSE [ok |-> TRUE, val |-> [id |-> number, is_group |-> FALSE]]

\* Jid::phonenumber.
Jid_phonenumber(jid) == IF ~jid.is_group THEN Some(<<"+">> \o jid.id) ELSE NoneOpt

----------------------------------------------------------------------------
(* Message ids (src/src/message.rs).                                       *)

HexDigit == <<"0", "1", "2", "3", "4", "5", "6", "7", "8", "9", "A", "B", "C", "D", "E", "F">>

\* format!("{:X}", b) of a byte: upper-case hexadecimal without padding, so
\* one digit for a byte below 16.
UpperHex(b) ==
    IF b < 16 THEN <<HexDigit[b + 1]>>
    ELSE <<HexDigit[(b \div 16) + 1], HexDigit[(b % 16) + 1]>>

\* The text of each byte, concatenated.
RECURSIVE concat_hex(_)
concat_hex(bytes) ==
    IF bytes = << >> THEN << >> ELSE UpperHex(Head(bytes)) \o concat_hex(Tail(bytes))

\* The bytes 0x3E and 0xB0 that start every message id.
MessageIdPrefix == <<62, 176>>

\* The number of bytes of a message id.
MessageIdBytes == 12

\* MessageId::generate, given the bytes SystemRandom fills in.
MessageId_generate(random) == concat_hex(MessageIdPrefix \o random)

----------------------------------------------------------------------------
(* Events (src/src/event.rs).                                              *)

\* WaEvent::from_app_message: the events of one app message, in order.
RECURSIVE filter_map_events(_, _)
filter_map_events(event_type, events) ==
    IF events = << >> THEN << >>
    ELSE LET event == Head(events)
             rest == filter_map_events(event_type, Tail(events))
         IN CASE event.e = "Message" ->
                    <<[type |-> "Message", is_new |-> (event_type = "Relay"), msg |-> event.msg]>> \o rest
              [] event.e = "MessageAck" -> <<[type |-> "MessageAck", ack |-> event.ack]>> \o rest
              [] event.e = "ContactDelete" -> <<[type |-> "DeleteContact", jid |-> event.jid]>> \o rest
              [] event.e = "ContactAddChange" -> <<[type |-> "AddContact", contact |-> event.contact]>> \o rest
              [] event.e = "ChatAction" ->
                    <<[type |-> "ChatEvent", jid |-> event.jid, event |-> event.action]>> \o rest
              [] event.e = "Battery" -> <<[type |-> "BatteryLevel", level |-> event.level]>> \o rest
              [] OTHER -> rest

\* A variant of from_app_message that marks every message as new.
from_app_message_all_new(a) ==
    CASE a.v = "Contacts" -> <<[type |-> "InitialContacts", contacts |-> a.contacts]>>
      [] a.v = "Chats" -> <<[type |-> "InitialChats", chats |-> a.chats]>>
      [] a.v = "MessagesEvents" -> filter_map_events("Relay", a.events)
      [] a.v = "Query" -> << >>

from_app_message(a) ==
    CASE a.v = "Contacts" -> <<[type |-> "InitialContacts", contacts |-> a.contacts]>>
      [] a.v = "Chats" -> <<[type |-> "InitialChats", chats |-> a.chats]>>
      [] a.v = "MessagesEvents" -> filter_map_events(a.event_type, a.events)
      [] a.v = "Query" -> << >>

\* WaEvent::from_server_message: acks need the own jid and are dropped
\* without it.
from_server_message(r, own_jid) ==
    CASE r.msg = "PresenceChange" -> <<[type |-> "PresenceChange", jid |-> r.jid]>>
      [] r.msg = "MessageAck" ->
            IF own_jid # NoneOpt
            THEN <<[type |-> "MessageAck",
                    ack |-> [level |-> "Received", id |-> r.message_id, own |-> own_jid[1]]]>>
            ELSE << >>

----------------------------------------------------------------------------
(* The engine (src/src/conn.rs): low-level protocol functions.             *)

\* HashMap::insert and HashMap::remove on the callback table.
Insert(map, k, v) == [x \in (DOMAIN map) \cup {k} |-> IF x = k THEN v ELSE map[x]]
Remove(map, k) == [x \in (DOMAIN map) \ {k} |-> map[x]]

\* Callback kinds (CallbackType).
Ct(type) == [type |-> type]
CtProcessAck(mid) == [type |-> "ProcessAck", mid |-> mid]
CtUuid(type, uuid) == [type |-> type, uuid |-> uuid]
CtJid(type, jid) == [type |-> type, jid |-> jid]

\* A variant of push_event that queues the event at the head.
push_event_front(c, evt) ==
    [c EXCEPT !.outbox = <<[id |-> c.g_events + 1, src |-> c.g_recv, evt |-> evt]>> \o @,
              !.g_events = @ + 1]

\* outbox.push_back(evt): the event is numbered in generation order and
\* remembers the inbound frame being processed.
push_event(c, evt) ==
    [c EXCEPT !.outbox = Append(@, [id |-> c.g_events + 1, src |-> c.g_recv, evt |-> evt]),
              !.g_events = @ + 1]

\* outbox.extend(events)
RECURSIVE extend_events(_, _)
extend_events(c, events) ==
    IF events = << >> THEN c
    ELSE extend_events(push_event(c, Head(events)), Tail(events))

\* A variant of alloc_message_tag that leaves the counter alone.
alloc_message_tag_noinc(c) ==
    [c |-> [c EXCEPT !.g_alloc = Append(@, to_string(c.tag_counter))],
     tag |-> to_string(c.tag_counter)]

alloc_message_tag(c) ==
    [c |-> [c EXCEPT !.tag_counter = @ + 1,
                     !.g_alloc = Append(@, to_string(c.tag_counter))],
     tag |-> to_string(c.tag_counter)]

\* What an outbound frame is, and the epoch it carries (0 for a frame that
\* is no app message).
IsApp(msg) ==
    msg.payload.kind = "BinaryEphemeral" /\ "epoch" \in DOMAIN msg.payload.bytes.plain.node

EpochOf(msg) == IF IsApp(msg) THEN msg.payload.bytes.plain.node.epoch ELSE 0

\* A variant of send_ws_message that queues the frame at the head.
send_ws_message_front(c, msg, ct) ==
    LET id == Len(c.g_frames) + 1
    IN [c EXCEPT !.callbacks = Insert(@, msg.tag, [ct |-> ct, reg |-> id]),
                 !.ws_outbox = <<[id |-> id, frame |-> serialize(msg)]>> \o @,
                 !.g_frames = Append(@, [tag |-> msg.tag, app |-> IsApp(msg),
                                         epoch |-> EpochOf(msg)]),
                 !.g_invoked = Insert(@, id, 0)]

send_ws_message(c, msg, ct) ==
    LET id == Len(c.g_frames) + 1
    IN [c EXCEPT !.callbacks = Insert(@, msg.tag, [ct |-> ct, reg |-> id]),
                 !.ws_outbox = Append(@, [id |-> id, frame |-> serialize(msg)]),
                 !.g_frames = Append(@, [tag |-> msg.tag, app |-> IsApp(msg),
                                         epoch |-> EpochOf(msg)]),
                 !.g_invoked = Insert(@, id, 0)]

increment_epoch(c) == [c EXCEPT !.epoch = @ + 1]

send_json_message(c, message, ct) ==
    LET a == alloc_message_tag(c)
    IN send_ws_message(a.c, [tag |-> a.tag, payload |-> [kind |-> "Json", json |-> message]], ct)

\* A variant of send_binary_message that takes a tag from the counter also
\* when the caller supplies one.
send_binary_message_fresh(c, tag, metric, message, ct) ==
    IF c.session_state.variant = "Established"
    THEN LET ps == c.session_state.persistent_session
             encrypted_message == sign_and_encrypt_message(ps.enc, ps.mac, message)
             a == alloc_message_tag(c)
         IN Ok(send_ws_message(a.c,
                   [tag |-> a.tag,
                    payload |-> [kind |-> "BinaryEphemeral", metric |-> metric,
                                 bytes |-> encrypted_message]], ct))
    ELSE Err(c, "InvalidSessionState")

send_binary_message(c, tag, metric, message, ct) ==
    IF c.session_state.variant = "Established"
    THEN LET ps == c.session_state.persistent_session
             encrypted_message == sign_and_encrypt_message(ps.enc, ps.mac, message)
             a == IF tag = NoneOpt THEN alloc_message_tag(c) ELSE [c |-> c, tag |-> tag[1]]
         IN Ok(send_ws_message(a.c,
                   [tag |-> a.tag,
                    payload |-> [kind |-> "BinaryEphemeral", metric |-> metric,
                                 bytes |-> encrypted_message]], ct))
    ELSE Err(c, "InvalidSessionState")

send_node_message(c, tag, metric, node, ct) ==
    send_binary_message(c, tag, metric, Node_serialize(node), ct)

\* A variant of send_app_message that stamps the epoch without advancing it.
send_app_message_noinc(c, tag, metric, app_message, ct) ==
    send_node_message(c, tag, metric, AppMessage_serialize(app_message, c.epoch), ct)

send_app_message(c, tag, metric, app_message, ct) ==
    LET c1 == [c EXCEPT !.epoch = @ + 1]
    IN send_node_message(c1, tag, metric, AppMessage_serialize(app_message, c1.epoch), ct)

send_set_app_event(c, metric, evt) ==
    send_app_message(c, NoneOpt, metric, MessagesEvents("Set", <<evt>>), Ct("Noop"))

\* self.user_jid.clone().unwrap() panics while there is no user jid.
send_group_command(c, command, participants) ==
    LET a == alloc_message_tag(c)
    IN IF a.c.user_jid = NoneOpt THEN Err(a.c, "Panic")
       ELSE send_app_message(a.c, Some(a.tag), "Group",
                MessagesEvents("Set", <<[e |-> "GroupCommand", inducer |-> a.c.user_jid[1],
                                         participants |-> participants, id |-> a.tag,
                                         command |-> command]>>),
                Ct("Noop"))

decrypt_binary_message(c, encrypted_message) ==
    IF c.session_state.variant = "Established"
    THEN LET ps == c.session_state.persistent_session
         IN verify_and_decrypt_message(ps.enc, ps.mac, encrypted_message)
    ELSE [ok |-> FALSE, err |-> "InvalidSessionState"]

----------------------------------------------------------------------------
(* The engine: callback implementations.                                   *)

\* A variant of ct_login_new that puts the client id before the public key.
ct_login_new_swapped(c, p) ==
    LET resp == parse_init_response(p)
    IN IF ~resp.ok THEN Err(c, resp.err)
       ELSE IF c.session_state.variant = "PendingNew"
       THEN LET qrc == QrCode_new(<<resp.val, base64_encode(c.session_state.client_id),
                                    base64_encode(c.session_state.public_key)>>)
            IN IF ~qrc.ok THEN Err(c, qrc.err)
               ELSE Ok(push_event(c, [type |-> "ScanCode", qr |-> qrc.val]))
       ELSE Err(c, "InvalidSessionState")

ct_login_new(c, p) ==
    LET resp == parse_init_response(p)
    IN IF ~resp.ok THEN Err(c, resp.err)
       ELSE IF c.session_state.variant = "PendingNew"
       THEN LET qrc == QrCode_new(<<resp.val, base64_encode(c.session_state.public_key),
                                    base64_encode(c.session_state.client_id)>>)
            IN IF ~qrc.ok THEN Err(c, qrc.err)
               ELSE Ok(push_event(c, [type |-> "ScanCode", qr |-> qrc.val]))
       ELSE Err(c, "InvalidSessionState")

\* A variant of ct_login_persistent that asks for the takeover whatever the
\* status of the init response.
ct_login_persistent_any_status(c, p) ==
    LET st == parse_response_status(p)
    IN IF st = "JsonFieldMissing" THEN Err(c, st)
       ELSE IF c.session_state.variant = "PendingPersistent"
       THEN LET ps == c.session_state.persistent_session
                login_command == [req |-> "takeover", client_token |-> ps.client_token,
                                  server_token |-> ps.server_token,
                                  client_id |-> base64_encode(ps.client_id)]
            IN Ok(send_json_message(c, login_command, Ct("CheckStatus")))
       ELSE Err(c, "InvalidSessionState")

ct_login_persistent(c, p) ==
    LET st == parse_response_status(p)
    IN IF st # "Ok" THEN Err(c, st)
       ELSE IF c.session_state.variant = "PendingPersistent"
       THEN LET ps == c.session_state.persistent_session
                login_command == [req |-> "takeover", client_token |-> ps.client_token,
                                  server_token |-> ps.server_token,
                                  client_id |-> base64_encode(ps.client_id)]
            IN Ok(send_json_message(c, login_command, Ct("CheckStatus")))
       ELSE Err(c, "InvalidSessionState")

ct_check_status(c, p) ==
    LET st == parse_response_status(p)
    IN IF st # "Ok" THEN Err(c, st) ELSE Ok(c)

\* A variant of ct_process_ack that returns the status of a failed send as
\* an error.
ct_process_ack_strict(c, p, mid) ==
    LET ack == LowLevelAck_deserialize(p)
    IN IF ~ack.ok THEN Err(c, ack.err)
       ELSE IF ack.status_code # 200 THEN Err(c, "StatusCode")
       ELSE IF c.user_jid = NoneOpt THEN Err(c, "NoJidYet")
       ELSE Ok(push_event(c, [type |-> "MessageAck",
                              ack |-> [level |-> "Sent", time |-> ack.timestamp, id |-> mid,
                                       own |-> c.user_jid[1]]]))

ct_process_ack(c, p, mid) ==
    LET ack == LowLevelAck_deserialize(p)
    IN IF ~ack.ok THEN Err(c, ack.err)
       ELSE IF ack.status_code # 200
       THEN Ok(push_event(c, [type |-> "MessageSendFail", mid |-> mid,
                              status |-> ack.status_code]))
       ELSE IF c.user_jid = NoneOpt THEN Err(c, "NoJidYet")
       ELSE Ok(push_event(c, [type |-> "MessageAck",
                              ack |-> [level |-> "Sent", time |-> ack.timestamp, id |-> mid,
                                       own |-> c.user_jid[1]]]))

ct_messages_before(c, uu, n) ==
    Ok(push_event(c, [type |-> "MessageHistory", uuid |-> uu, history |-> n]))

\* parse_file_upload_response and parse_media_conn_response read fields of
\* a status-200 object and fail on any other document.
ct_file_upload(c, p, uuid) ==
    IF parse_response_status(p) # "Ok" THEN Err(c, "JsonFieldMissing")
    ELSE Ok(push_event(c, [type |-> "FileUpload", uuid |-> uuid, url |-> "url"]))

ct_media_conn(c, p, uuid) ==
    IF parse_response_status(p) # "Ok" THEN Err(c, "JsonFieldMissing")
    ELSE Ok(push_event(c, [type |-> "MediaConn", uuid |-> uuid, auth |-> "auth"]))

ct_profile_picture(c, p, jid) ==
    Ok(push_event(c, [type |-> "ProfilePicture", jid |-> jid,
                      url |-> IF p.shape = "object" THEN "url" ELSE None]))

\* parse_profile_status_response gives no status for a document without one.
ct_profile_status(c, p, jid) ==
    IF p.shape = "object"
    THEN Ok(push_event(c, [type |-> "ProfileStatus", jid |-> jid, status |-> "status",
                           was_request |-> TRUE]))
    ELSE Ok(c)

ct_group_metadata(c, j) ==
    Ok(push_event(c, [type |-> "GroupMetadata", meta |-> j.shape]))

----------------------------------------------------------------------------
(* The engine: handlers for what comes down the wire.                      *)

\* The handler of a registration runs: counted per registration.
Invoked(c, cb) == [c EXCEPT !.g_invoked[cb.reg] = @ + 1]

handle_callback_json(c0, j, cb) ==
    LET c == Invoked(c0, cb)
        ct == cb.ct
    IN CASE ct.type = "LoginNew" -> ct_login_new(c, j)
         [] ct.type = "LoginPersistent" -> ct_login_persistent(c, j)
         [] ct.type = "CheckStatus" -> ct_check_status(c, j)
         [] ct.type = "ProcessAck" -> ct_process_ack(c, j, ct.mid)
         [] ct.type = "FileUpload" -> ct_file_upload(c, j, ct.uuid)
         [] ct.type = "MediaConn" -> ct_media_conn(c, j, ct.uuid)
         [] ct.type = "ProfilePicture" -> ct_profile_picture(c, j, ct.jid)
         [] ct.type = "ProfileStatus" -> ct_profile_status(c, j, ct.jid)
         [] ct.type = "GroupMetadata" -> ct_group_metadata(c, j)
         [] ct.type = "Noop" -> Ok(c)
         [] OTHER -> Err(c, "InvalidPayload")

handle_callback_node(c0, n, cb) ==
    LET c == Invoked(c0, cb)
        ct == cb.ct
    IN CASE ct.type = "MessagesBefore" -> ct_messages_before(c, ct.uuid, n)
         [] ct.type = "Noop" -> Ok(c)
         [] OTHER -> Err(c, "InvalidPayload")

\* A variant of handle_connection_ack that takes an established session
\* for a pending persistent one.
handle_connection_ack_again(c, new_jid, client_token, server_token, secret) ==
    IF c.session_state.variant = "PendingNew" THEN Err(c, "InvalidSessionState")
    ELSE LET old == c.session_state.persistent_session
             new_persistent_session ==
                 [client_id |-> old.client_id, enc |-> old.enc, mac |-> old.mac,
                  client_token |-> client_token, server_token |-> server_token]
         IN [c |-> [c EXCEPT !.user_jid = Some(new_jid),
                             !.session_state = Established(new_persistent_session)],
             err |-> "Ok", persistent |-> new_persistent_session, jid |-> new_jid]

\* A variant of handle_connection_ack that returns the saved session of a
\* persistent login, not the one it stores.
handle_connection_ack_stale(c, new_jid, client_token, server_token, secret) ==
    CASE c.session_state.variant = "PendingNew" ->
            IF secret = None THEN Err(c, "JsonFieldMissing")
            ELSE LET dec == base64_decode(secret)
                 IN IF ~dec.ok THEN Err(c, dec.err)
                    ELSE IF c.session_state.private_key = None THEN Err(c, "Panic")
                    ELSE LET taken == [c EXCEPT !.session_state.private_key = None]
                             keys == calculate_secret_keys(dec.val, c.session_state.private_key)
                         IN IF ~keys.ok THEN Err(taken, keys.err)
                            ELSE LET persistent_session ==
                                         [client_token |-> client_token,
                                          server_token |-> server_token,
                                          client_id |-> c.session_state.client_id,
                                          enc |-> keys.enc, mac |-> keys.mac]
                                 IN [c |-> [taken EXCEPT
                                               !.user_jid = Some(new_jid),
                                               !.session_state = Established(persistent_session)],
                                     err |-> "Ok", persistent |-> persistent_session,
                                     jid |-> new_jid]
      [] c.session_state.variant = "PendingPersistent" ->
            LET old == c.session_state.persistent_session
                new_persistent_session ==
                    [client_id |-> old.client_id, enc |-> old.enc, mac |-> old.mac,
                     client_token |-> client_token, server_token |-> server_token]
            IN [c |-> [c EXCEPT !.user_jid = Some(new_jid),
                                !.session_state = Established(new_persistent_session)],
                err |-> "Ok", persistent |-> old, jid |-> new_jid]
      [] OTHER -> Err(c, "InvalidSessionState")

\* A variant of handle_connection_ack that keeps the tokens of the saved
\* session of a persistent login.
handle_connection_ack_keep_tokens(c, new_jid, client_token, server_token, secret) ==
    CASE c.session_state.variant = "PendingNew" ->
            IF secret = None THEN Err(c, "JsonFieldMissing")
            ELSE LET dec == base64_decode(secret)
                 IN IF ~dec.ok THEN Err(c, dec.err)
                    ELSE IF c.session_state.private_key = None THEN Err(c, "Panic")
                    ELSE LET taken == [c EXCEPT !.session_state.private_key = None]
                             keys == calculate_secret_keys(dec.val, c.session_state.private_key)
                         IN IF ~keys.ok THEN Err(taken, keys.err)
                            ELSE LET persistent_session ==
                                         [client_token |-> client_token,
                                          server_token |-> server_token,
                                          client_id |-> c.session_state.client_id,
                                          enc |-> keys.enc, mac |-> keys.mac]
                                 IN [c |-> [taken EXCEPT
                                               !.user_jid = Some(new_jid),
                                               !.session_state = Established(persistent_session)],
                                     err |-> "Ok", persistent |-> persistent_session,
                                     jid |-> new_jid]
      [] c.session_state.variant = "PendingPersistent" ->
            LET old == c.session_state.persistent_session
                new_persistent_session ==
                    [client_id |-> old.client_id, enc |-> old.enc, mac |-> old.mac,
                     client_token |-> old.client_token, server_token |-> old.server_token]
            IN [c |-> [c EXCEPT !.user_jid = Some(new_jid),
                                !.session_state = Established(new_persistent_session)],
                err |-> "Ok", persistent |-> new_persistent_session, jid |-> new_jid]
      [] OTHER -> Err(c, "InvalidSessionState")

\* A variant of handle_connection_ack that gives an established session a
\* new enc key.
handle_connection_ack_rekey(c, new_jid, client_token, server_token, secret) ==
    CASE c.session_state.variant = "PendingNew" ->
            IF secret = None THEN Err(c, "JsonFieldMissing")
            ELSE LET dec == base64_decode(secret)
                 IN IF ~dec.ok THEN Err(c, dec.err)
                    ELSE IF c.session_state.private_key = None THEN Err(c, "Panic")
                    ELSE LET taken == [c EXCEPT !.session_state.private_key = None]
                             keys == calculate_secret_keys(dec.val, c.session_state.private_key)
                         IN IF ~keys.ok THEN Err(taken, keys.err)
                            ELSE LET persistent_session ==
                                         [client_token |-> client_token,
                                          server_token |-> server_token,
                                          client_id |-> c.session_state.client_id,
                                          enc |-> keys.enc, mac |-> keys.mac]
                                 IN [c |-> [taken EXCEPT
                                               !.user_jid = Some(new_jid),
                                               !.session_state = Established(persistent_session)],
                                     err |-> "Ok", persistent |-> persistent_session,
                                     jid |-> new_jid]
      [] c.session_state.variant = "PendingPersistent" ->
            LET old == c.session_state.persistent_session
                new_persistent_session ==
                    [client_id |-> old.client_id, enc |-> old.enc, mac |-> old.mac,
                     client_token |-> client_token, server_token |-> server_token]
            IN [c |-> [c EXCEPT !.user_jid = Some(new_jid),
                                !.session_state = Established(new_persistent_session)],
                err |-> "Ok", persistent |-> new_persistent_session, jid |-> new_jid]
      [] OTHER -> [c |-> [c EXCEPT !.session_state.persistent_session.enc = "enc-rekeyed"],
                   err |-> "Ok", persistent |-> c.session_state.persistent_session,
                   jid |-> new_jid]

\* A variant of handle_connection_ack that does not store the user jid of
\* a persistent login.
handle_connection_ack_nojid(c, new_jid, client_token, server_token, secret) ==
    CASE c.session_state.variant = "PendingNew" ->
            IF secret = None THEN Err(c, "JsonFieldMissing")
            ELSE LET dec == base64_decode(secret)
                 IN IF ~dec.ok THEN Err(c, dec.err)
                    ELSE IF c.session_state.private_key = None THEN Err(c, "Panic")
                    ELSE LET taken == [c EXCEPT !.session_state.private_key = None]
                             keys == calculate_secret_keys(dec.val, c.session_state.private_key)
                         IN IF ~keys.ok THEN Err(taken, keys.err)
                            ELSE LET persistent_session ==
                                         [client_token |-> client_token,
                                          server_token |-> server_token,
                                          client_id |-> c.session_state.client_id,
                                          enc |-> keys.enc, mac |-> keys.mac]
                                 IN [c |-> [taken EXCEPT
                                               !.user_jid = Some(new_jid),
                                               !.session_state = Established(persistent_session)],
                                     err |-> "Ok", persistent |-> persistent_session,
                                     jid |-> new_jid]
      [] c.session_state.variant = "PendingPersistent" ->
            LET old == c.session_state.persistent_session
                new_persistent_session ==
                    [client_id |-> old.client_id, enc |-> old.enc, mac |-> old.mac,
                     client_token |-> client_token, server_token |-> server_token]
            IN [c |-> [c EXCEPT !.session_state = Established(new_persistent_session)],
                err |-> "Ok", persistent |-> new_persistent_session, jid |-> new_jid]
      [] OTHER -> Err(c, "InvalidSessionState")

\* Returns the Result together with the (persistent session, jid) pair.
handle_connection_ack(c, new_jid, client_token, server_token, secret) ==
    CASE c.session_state.variant = "PendingNew" ->
            IF secret = None THEN Err(c, "JsonFieldMissing")
            ELSE LET dec == base64_decode(secret)
                 IN IF ~dec.ok THEN Err(c, dec.err)
                    ELSE IF c.session_state.private_key = None THEN Err(c, "Panic")
                    ELSE LET taken == [c EXCEPT !.session_state.private_key = None]
                             keys == calculate_secret_keys(dec.val, c.session_state.private_key)
                         IN IF ~keys.ok THEN Err(taken, keys.err)
                            ELSE LET persistent_session ==
                                         [client_token |-> client_token,
                                          server_token |-> server_token,
                                          client_id |-> c.session_state.client_id,
                                          enc |-> keys.enc, mac |-> keys.mac]
                                 IN [c |-> [taken EXCEPT
                                               !.user_jid = Some(new_jid),
                                               !.session_state = Established(persistent_session)],
                                     err |-> "Ok", persistent |-> persistent_session,
                                     jid |-> new_jid]
      [] c.session_state.variant = "PendingPersistent" ->
            LET old == c.session_state.persistent_session
                new_persistent_session ==
                    [client_id |-> old.client_id, enc |-> old.enc, mac |-> old.mac,
                     client_token |-> client_token, server_token |-> server_token]
            IN [c |-> [c EXCEPT !.user_jid = Some(new_jid),
                                !.session_state = Established(new_persistent_session)],
                err |-> "Ok", persistent |-> new_persistent_session, jid |-> new_jid]
      [] OTHER -> Err(c, "InvalidSessionState")

\* A variant of handle_server_challenge that signs with the enc key.
handle_server_challenge_enc(c, challenge) ==
    IF c.session_state.variant \in {"Established", "PendingPersistent"}
    THEN LET persist == c.session_state.persistent_session
             signature == sign_challenge(persist.enc, challenge)
             resp == [req |-> "challenge", server_token |-> persist.server_token,
                      client_id |-> base64_encode(persist.client_id), signature |-> signature]
         IN Ok(send_json_message(c, resp, Ct("CheckStatus")))
    ELSE Err(c, "InvalidSessionState")

handle_server_challenge(c, challenge) ==
    IF c.session_state.variant \in {"Established", "PendingPersistent"}
    THEN LET persist == c.session_state.persistent_session
             signature == sign_challenge(persist.mac, challenge)
             resp == [req |-> "challenge", server_token |-> persist.server_token,
                      client_id |-> base64_encode(persist.client_id), signature |-> signature]
         IN Ok(send_json_message(c, resp, Ct("CheckStatus")))
    ELSE Err(c, "InvalidSessionState")

\* A variant of generate_empty_ack that drops the ack while there is no jid.
generate_empty_ack_lenient(c, mid) ==
    IF c.user_jid = NoneOpt THEN Ok(c)
    ELSE Ok(push_event(c, [type |-> "MessageAck",
                           ack |-> [level |-> "PendingSend", time |-> None, id |-> mid,
                                    own |-> c.user_jid[1]]]))

generate_empty_ack(c, mid) ==
    IF c.user_jid = NoneOpt THEN Err(c, "NoJidYet")
    ELSE Ok(push_event(c, [type |-> "MessageAck",
                           ack |-> [level |-> "PendingSend", time |-> None, id |-> mid,
                                    own |-> c.user_jid[1]]]))

\* A variant of on_server_message that mixes up the two reasons.
on_server_message_swapped(c, r) ==
    CASE r.msg = "ConnectionAck" ->
            LET h == handle_connection_ack(c, r.user_jid, r.client_token, r.server_token, r.secret)
            IN IF h.err # "Ok" THEN Err(h.c, h.err)
               ELSE Ok(push_event(h.c, [type |-> "SessionEstablished",
                                        persistent |-> h.persistent, jid |-> h.jid]))
      [] r.msg = "ChallengeRequest" -> handle_server_challenge(c, r.challenge)
      [] r.msg = "Disconnect" ->
            Err(c, IF r.kind # None THEN "Disconnected(Removed)" ELSE "Disconnected(Replaced)")
      [] OTHER -> Ok(extend_events(c, from_server_message(r, c.user_jid)))

on_server_message(c, r) ==
    CASE r.msg = "ConnectionAck" ->
            LET h == handle_connection_ack(c, r.user_jid, r.client_token, r.server_token, r.secret)
            IN IF h.err # "Ok" THEN Err(h.c, h.err)
               ELSE Ok(push_event(h.c, [type |-> "SessionEstablished",
                                        persistent |-> h.persistent, jid |-> h.jid]))
      [] r.msg = "ChallengeRequest" -> handle_server_challenge(c, r.challenge)
      [] r.msg = "Disconnect" ->
            Err(c, IF r.kind # None THEN "Disconnected(Replaced)" ELSE "Disconnected(Removed)")
      [] OTHER -> Ok(extend_events(c, from_server_message(r, c.user_jid)))

----------------------------------------------------------------------------
(* The engine: websocket callback handlers.                                *)

on_connected(c) ==
    LET c1 == push_event(c, [type |-> "WebsocketConnected"])
    IN CASE c1.session_state.variant = "PendingNew" ->
              Ok(send_json_message(c1, [req |-> "init",
                                        client_id |-> base64_encode(c1.session_state.client_id)],
                                   Ct("LoginNew")))
         [] c1.session_state.variant = "PendingPersistent" ->
              Ok(send_json_message(c1, [req |-> "init",
                                        client_id |-> base64_encode(
                                            c1.session_state.persistent_session.client_id)],
                                   Ct("LoginPersistent")))
         [] OTHER -> Err(c1, "Panic")

\* A variant of on_ping_timer that leaves the response timer alone.
on_ping_timer_noarm(c) ==
    LET id == Len(c.g_frames) + 1
    IN [c EXCEPT !.ws_outbox = <<[id |-> id, frame |-> Keepalive]>> \o @,
                 !.g_frames = Append(@, [tag |-> NoneOpt, app |-> FALSE, epoch |-> 0])]

\* ws_outbox.push_front of the keepalive, and the response timer armed.
on_ping_timer(c) ==
    LET id == Len(c.g_frames) + 1
    IN [c EXCEPT !.ws_outbox = <<[id |-> id, frame |-> Keepalive]>> \o @,
                 !.g_frames = Append(@, [tag |-> NoneOpt, app |-> FALSE, epoch |-> 0]),
                 !.response_timer = TRUE]

\* A variant of take_callback that leaves the callback in the table.
take_callback_keep(c, tag) ==
    IF tag \in DOMAIN c.callbacks
    THEN [c |-> c, cb |-> Some(c.callbacks[tag])]
    ELSE [c |-> c, cb |-> NoneOpt]

\* self.callbacks.remove(&message.tag): the callback registered under the
\* tag, taken out of the table.
take_callback(c, tag) ==
    IF tag \in DOMAIN c.callbacks
    THEN [c |-> [c EXCEPT !.callbacks = Remove(@, tag)], cb |-> Some(c.callbacks[tag])]
    ELSE [c |-> c, cb |-> NoneOpt]

\* A variant of the Json arm that reads a server message first and looks
\* for a callback only when the payload is none.
on_message_json_server_first(c, message) ==
    LET p == message.payload.json
        t == take_callback(c, message.tag)
        r == ServerMessage_deserialize(p)
    IN IF r.ok THEN on_server_message(c, r.val)
       ELSE IF t.cb # NoneOpt THEN handle_callback_json(t.c, p, t.cb[1])
       ELSE Ok(c)

\* The Json arm of on_message.
on_message_json(c, message) ==
    LET p == message.payload.json
        t == take_callback(c, message.tag)
    IN IF t.cb # NoneOpt THEN handle_callback_json(t.c, p, t.cb[1])
       ELSE LET r == ServerMessage_deserialize(p)
            IN IF r.ok THEN on_server_message(c, r.val) ELSE Ok(c)

\* A variant of the BinarySimple arm that returns the error of a payload
\* that is no node.
on_message_binary_simple_strict(c, message) ==
    LET dec == decrypt_binary_message(c, message.payload.bytes)
    IN IF ~dec.ok THEN Ok(c)
       ELSE LET payload == Node_deserialize(dec.val)
            IN IF ~payload.ok THEN Err(c, payload.err)
               ELSE LET t == take_callback(c, message.tag)
                    IN IF t.cb # NoneOpt THEN handle_callback_node(t.c, payload.val, t.cb[1])
                       ELSE LET a == AppMessage_deserialize(payload.val)
                            IN IF a.ok THEN Ok(extend_events(c, from_app_message(a.val)))
                               ELSE Ok(c)

\* The BinarySimple arm of on_message.
on_message_binary_simple(c, message) ==
    LET dec == decrypt_binary_message(c, message.payload.bytes)
    IN IF ~dec.ok THEN Ok(c)
       ELSE LET payload == Node_deserialize(dec.val)
            IN IF ~payload.ok THEN Ok(c)
               ELSE LET t == take_callback(c, message.tag)
                    IN IF t.cb # NoneOpt THEN handle_callback_node(t.c, payload.val, t.cb[1])
                       ELSE LET a == AppMessage_deserialize(payload.val)
                            IN IF a.ok THEN Ok(extend_events(c, from_app_message(a.val)))
                               ELSE Ok(c)

\* A variant of the Empty arm that counts the characters of the tag.
on_message_empty_chars(c, message) ==
    IF Len(message.tag) > 10 THEN generate_empty_ack(c, message.tag) ELSE Ok(c)

\* The Empty arm of on_message.
on_message_empty(c, message) ==
    IF str_len(message.tag) > 10 THEN generate_empty_ack(c, message.tag) ELSE Ok(c)

on_message(c, m) ==
    LET d == deserialize(m)
    IN IF d = NoneOpt THEN Ok(c)
       ELSE LET message == d[1]
            IN CASE message.payload.kind = "Json" -> on_message_json(c, message)
                 [] message.payload.kind = "BinarySimple" -> on_message_binary_simple(c, message)
                 [] message.payload.kind = "Empty" -> on_message_empty(c, message)
                 [] message.payload.kind = "Pong" -> Ok(c)
                 [] message.payload.kind = "BinaryEphemeral" -> Ok(c)

\* WebConnection::setup: the engine after construction.
setup(sess) ==
    on_connected([session_state |-> sess, callbacks |-> << >>, tag_counter |-> 0, epoch |-> 0,
                  ws_outbox |-> << >>, outbox |-> << >>, response_timer |-> FALSE,
                  user_jid |-> NoneOpt,
                  g_frames |-> << >>, g_events |-> 0, g_recv |-> 0, g_invoked |-> << >>,
                  g_alloc |-> << >>]).c

----------------------------------------------------------------------------
(* Requests (src/src/req.rs).                                              *)

\* A variant of is_sending that takes every direction for Sending.
is_sending_any(direction) == TRUE

\* Direction::is_sending.
is_sending(direction) == direction = "Sending"

\* WaRequest::apply.
apply(c, req) ==
    CASE req.type = "MessagePlayed" ->
            send_set_app_event(increment_epoch(c), "Received",
                               [e |-> "MessagePlayed", id |-> req.mid, peer |-> req.peer])
      [] req.type = "MessageRead" ->
            send_set_app_event(c, "Read", [e |-> "MessageRead", id |-> req.mid, peer |-> req.peer])
      [] req.type = "SetPresence" ->
            send_set_app_event(c, "Presence", [e |-> "PresenceChange", presence |-> req.presence])
      [] req.type = "SetStatus" ->
            send_set_app_event(c, "Status", [e |-> "StatusChange", status |-> req.status])
      [] req.type = "SetNotifyName" ->
            send_set_app_event(c, "Profile", [e |-> "NotifyChange", name |-> req.name])
      [] req.type = "SetProfileBlocked" ->
            send_set_app_event(c, "Block", [e |-> "BlockProfile", unblock |-> ~req.blocked,
                                            jid |-> req.jid])
      [] req.type = "ChatAction" ->
            send_set_app_event(c, "Chat", [e |-> "ChatAction", jid |-> req.jid,
                                           action |-> req.action])
      [] req.type = "SendMessage" ->
            IF ~is_sending(req.msg.direction) THEN Err(c, "InvalidDirection")
            ELSE send_app_message(c, Some(req.msg.id), "Message",
                     MessagesEvents("Relay", <<[e |-> "Message", msg |-> req.msg]>>),
                     CtProcessAck(req.msg.id))
      [] req.type = "CreateGroup" ->
            send_group_command(c, [cmd |-> "Create", subject |-> req.subject], req.participants)
      [] req.type = "ChangeGroupParticipants" ->
            send_group_command(c, [cmd |-> "ParticipantsChange", jid |-> req.jid,
                                   change |-> req.change], req.participants)
      [] req.type = "RequestFileUpload" ->
            Ok(send_json_message(c, [req |-> "file_upload"], CtUuid("FileUpload", req.uuid)))
      [] req.type = "RequestMediaConn" ->
            Ok(send_json_message(c, [req |-> "media_conn"], CtUuid("MediaConn", req.uuid)))
      [] req.type = "GetMessageHistoryBefore" ->
            send_app_message(c, NoneOpt, "QueryMessages",
                [v |-> "Query", jid |-> req.jid, id |-> req.mid, count |-> req.count],
                CtUuid("MessagesBefore", req.uuid))
      [] req.type = "GetProfilePicture" ->
            Ok(send_json_message(c, [req |-> "profile_picture", jid |-> req.jid],
                                 CtJid("ProfilePicture", req.jid)))
      [] req.type = "GetProfileStatus" ->
            Ok(send_json_message(c, [req |-> "profile_status", jid |-> req.jid],
                                 CtJid("ProfileStatus", req.jid)))
      [] req.type = "GetGroupMetadata" ->
            Ok(send_json_message(c, [req |-> "group_metadata", jid |-> req.jid],
                                 Ct("GroupMetadata")))
      [] req.type = "SubscribePresence" ->
            Ok(send_json_message(c, [req |-> "presence_subscribe", jid |-> req.jid], Ct("Noop")))

----------------------------------------------------------------------------
(* What the environment supplies: the caller's requests and the server's   *)
(* frames.                                                                 *)

ChatMessages ==
    {[id |-> mid, direction |-> d] : mid \in MessageIds, d \in {"Sending", "Receiving"}}

Requests ==
    {[type |-> "MessagePlayed", mid |-> MidLong, peer |-> TheJid],
     [type |-> "MessageRead", mid |-> MidLong, peer |-> TheJid],
     [type |-> "SetPresence", presence |-> "Available"],
     [type |-> "SetStatus", status |-> "hello"],
     [type |-> "SetNotifyName", name |-> "me"],
     [type |-> "SetProfileBlocked", jid |-> TheJid, blocked |-> TRUE],
     [type |-> "ChatAction", jid |-> TheJid, action |-> "Archive"],
     [type |-> "CreateGroup", subject |-> "group", participants |-> <<TheJid>>],
     [type |-> "ChangeGroupParticipants", jid |-> TheJid, change |-> "Add",
      participants |-> <<TheJid>>],
     [type |-> "RequestFileUpload", uuid |-> TheUuid],
     [type |-> "RequestMediaConn", uuid |-> TheUuid],
     [type |-> "GetMessageHistoryBefore", jid |-> TheJid, mid |-> MidLong, count |-> 1,
      uuid |-> TheUuid],
     [type |-> "GetProfilePicture", jid |-> TheJid],
     [type |-> "GetProfileStatus", jid |-> TheJid],
     [type |-> "GetGroupMetadata", jid |-> TheJid],
     [type |-> "SubscribePresence", jid |-> TheJid]}
    \cup {[type |-> "SendMessage", msg |-> msg] : msg \in ChatMessages}

\* Requests that register a JSON callback and a node callback.
RequestsDemux ==
    {[type |-> "SendMessage", msg |-> [id |-> MidLong, direction |-> "Sending"]],
     [type |-> "GetMessageHistoryBefore", jid |-> TheJid, mid |-> MidLong, count |-> 1,
      uuid |-> TheUuid]}

\* Requests that take a tag from the counter for a JSON frame, for an app
\* message and for a group command, that bring their own tag, and that
\* advance the epoch by one and by two.
RequestsTags ==
    {[type |-> "RequestFileUpload", uuid |-> TheUuid],
     [type |-> "SetPresence", presence |-> "Available"],
     [type |-> "MessagePlayed", mid |-> MidLong, peer |-> TheJid],
     [type |-> "CreateGroup", subject |-> "group", participants |-> <<TheJid>>]}
    \cup {[type |-> "SendMessage", msg |-> [id |-> mid, direction |-> "Sending"]] :
             mid \in MessageIds}

\* A request whose response is a binary frame.
RequestsSpont ==
    {[type |-> "GetMessageHistoryBefore", jid |-> TheJid, mid |-> MidLong, count |-> 1,
      uuid |-> TheUuid]}

\* A request that needs no established session.
RequestsSink == {[type |-> "SubscribePresence", jid |-> TheJid]}

InJson ==
    {JsonInitOk, JsonStatus(200), JsonStatus(401), JsonConn("secret-valid"),
     JsonConn("secret-bad"), JsonChallenge, JsonDisconnect("replaced"), JsonPresence,
     JsonJunk}

\* Encrypted payloads: under the keys of a new session or of the saved one
\* (so under the wrong keys for the other), of bytes that are a node or not.
InBytes ==
    {sign_and_encrypt_message(k[1], k[2], plain) :
        k \in {<<"enc-new", "mac-new">>, <<SavedSession.enc, SavedSession.mac>>},
        plain \in {GarbageBytes, Node_serialize(NodeHistory), Node_serialize(NodeRelay)}}

InPayloads ==
    {[kind |-> "Json", json |-> j] : j \in InJson}
    \cup {[kind |-> "BinarySimple", bytes |-> b] : b \in InBytes}
    \cup {[kind |-> "BinaryEphemeral", metric |-> "Message",
            bytes |-> sign_and_encrypt_message("enc-new", "mac-new", Node_serialize(NodeRelay))]}
    \cup {[kind |-> "Empty"], [kind |-> "Pong"]}

\* The tags of inbound frames: the tag of every frame sent so far, a tag
\* the server chooses itself, and a message id.  (A tag never sent acts
\* only through its length.)
InTags(sent) == ({sent[i].tag : i \in DOMAIN sent} \ {NoneOpt}) \cup {ServerTag, MidLong}

Frame(t, p) == serialize([tag |-> t, payload |-> p])

\* The frames the WebSocket may deliver.
InFrames(sent) ==
    {Frame(t, p) : t \in InTags(sent), p \in InPayloads} \cup {JunkFrame}

\* Further payloads: a Disconnect without a reason, an init response whose
\* ref is too long for a QR code, a message ack, a ConnectionAck without a
\* secret and one whose secret is no base64, and a contact list.
InPayloadsMore ==
    InPayloads
    \cup {[kind |-> "Json", json |-> j] : j \in {JsonDisconnect(None), JsonInitLong, JsonMsgAck,
                                                   JsonConn(None), JsonConn("not-base64")}}
    \cup {[kind |-> "BinarySimple",
            bytes |-> sign_and_encrypt_message(k[1], k[2], Node_serialize(NodeContacts))] :
             k \in {<<"enc-new", "mac-new">>, <<SavedSession.enc, SavedSession.mac>>}}

InFramesMore(sent) ==
    {Frame(t, p) : t \in InTags(sent) \cup {MidWide, MidTen}, p \in InPayloadsMore} \cup {JunkFrame}

\* The frame that establishes the session.
InFramesSend == {Frame(ServerTag, [kind |-> "Json", json |-> JsonConn("secret-valid")])}

\* Frames that make a callback send: the init response of a persistent
\* login and a server challenge; a pong; a frame that cannot be decoded.
InFramesSink ==
    {Frame(to_string(0), [kind |-> "Json", json |-> JsonStatus(200)]),
     Frame(ServerTag, [kind |-> "Json", json |-> JsonChallenge]),
     Frame(ServerTag, [kind |-> "Pong"]),
     JunkFrame}

----------------------------------------------------------------------------
(* The state machine.                                                      *)

\* The engine as a record of its fields.
Self ==
    [session_state |-> session_state, callbacks |-> callbacks, tag_counter |-> tag_counter,
     epoch |-> epoch, response_timer |-> response_timer, ws_outbox |-> ws_outbox,
     outbox |-> outbox, user_jid |-> user_jid, g_frames |-> g_frames,
     g_events |-> g_events, g_recv |-> g_recv, g_invoked |-> g_invoked, g_alloc |-> g_alloc]

\* The fields after a call.
Commit(c) ==
    /\ session_state' = c.session_state
    /\ callbacks' = c.callbacks
    /\ tag_counter' = c.tag_counter
    /\ epoch' = c.epoch
    /\ response_timer' = c.response_timer
    /\ ws_outbox' = c.ws_outbox
    /\ outbox' = c.outbox
    /\ user_jid' = c.user_jid
    /\ g_frames' = c.g_frames
    /\ g_events' = c.g_events
    /\ g_recv' = c.g_recv
    /\ g_invoked' = c.g_invoked
    /\ g_alloc' = c.g_alloc

WithinBounds(c) ==
    /\ Len(c.g_frames) <= MaxFrames
    /\ c.epoch <= MaxEpoch
    /\ c.g_recv <= MaxRecv

\* connect_new / connect_persistent followed by setup.
InitialSessions == {pending_new, pending_persistent(SavedSession)}

\* The engine right after WebConnection::setup.
EngineInit(sess) ==
    LET c == setup(sess)
    IN /\ session_state = c.session_state
       /\ callbacks = c.callbacks
       /\ tag_counter = c.tag_counter
       /\ epoch = c.epoch
       /\ response_timer = c.response_timer
       /\ ws_outbox = c.ws_outbox
       /\ outbox = c.outbox
       /\ user_jid = c.user_jid
       /\ g_frames = c.g_frames
       /\ g_events = c.g_events
       /\ g_recv = c.g_recv
       /\ g_invoked = c.g_invoked
       /\ g_alloc = c.g_alloc
       /\ pc = "idle"
       /\ wire = << >>
       /\ yielded = << >>
       /\ timer_elapsed = FALSE
       /\ g_failed = NoneOpt
       /\ lastOp = [op |-> "setup"]

\* No function runs apart from the engine.
NoPure == [fn |-> "none"]

Init == \E sess \in InitialSessions : EngineInit(sess) /\ pure = NoPure

\* The tag and the payload kind of an inbound frame, if it has them.
FrameTag(m) == IF deserialize(m) = NoneOpt THEN NoneOpt ELSE Some(deserialize(m)[1].tag)

FrameKind(m) == IF deserialize(m) = NoneOpt THEN "Undecodable" ELSE deserialize(m)[1].payload.kind

\* The first error the engine raises in poll_next is remembered with what
\* raised it: the response timer, a callback handler or a spontaneous frame.
Surfaced(err, by) ==
    IF err \in {"Ok", "Panic"} \/ g_failed # NoneOpt THEN g_failed
    ELSE Some([err |-> err, by |-> by])

\* Where a call leaves poll_next: a panic ends the program.
AfterCall(err, next) == IF err = "Panic" THEN "panicked" ELSE next

\* Stream::poll_next, one turn of its receive loop: the WebSocket has a
\* frame ready; the response timer is disarmed and on_message runs.  An
\* error of on_message is returned at once.
PollNextRecv(m) ==
    /\ pc \in {"idle", "polling"}
    /\ LET r == on_message([Self EXCEPT !.response_timer = FALSE, !.g_recv = @ + 1], m)
       IN /\ WithinBounds(r.c)
          /\ Commit(r.c)
          /\ pc' = AfterCall(r.err, IF r.err = "Ok" THEN "polling" ELSE "idle")
          /\ g_failed' = Surfaced(r.err, IF r.c.g_invoked # g_invoked THEN "callback"
                                          ELSE "frame")
          /\ lastOp' = [op |-> "recv", ret |-> r.err, tag |-> FrameTag(m),
                        kind |-> FrameKind(m), armed |-> response_timer]
    /\ timer_elapsed' = FALSE
    /\ UNCHANGED <<wire, yielded, pure>>

\* Stream::poll_next when the WebSocket has ended (None) or failed.
PollNextEnd(e) ==
    /\ pc \in {"idle", "polling"}
    /\ pc' = "idle"
    /\ lastOp' = [op |-> "end", ret |-> e]
    /\ UNCHANGED <<session_state, callbacks, tag_counter, epoch, response_timer, ws_outbox,
                   outbox, user_jid, g_frames, g_events, g_recv, g_invoked, g_alloc,
                   wire, yielded, timer_elapsed, g_failed, pure>>

\* Stream::poll_next once the WebSocket is Pending: the ping timer, the
\* response timer, then one event popped from the outbox.  A response timer
\* armed in this very call has its deadline ahead and cannot be ready; one
\* whose deadline has passed stays ready until it is disarmed or armed anew.
PollNextTail(tick, fire) ==
    /\ pc \in {"idle", "polling"}
    /\ fire => (response_timer /\ ~tick)
    /\ (timer_elapsed /\ ~tick) => fire
    /\ LET c1 == IF tick THEN on_ping_timer(Self) ELSE Self
       IN /\ WithinBounds(c1)
          /\ IF fire
             THEN /\ Commit(c1)
                  /\ yielded' = yielded
                  /\ g_failed' = Surfaced("Timeout", "timer")
                  /\ lastOp' = [op |-> "tail",
                                ret |-> "Timeout"]
             ELSE IF c1.outbox # << >>
             THEN /\ Commit([c1 EXCEPT !.outbox = Tail(@)])
                  /\ yielded' = Append(yielded, [id |-> Head(c1.outbox).id,
                                               src |-> Head(c1.outbox).src])
                  /\ g_failed' = g_failed
                  /\ lastOp' = [op |-> "tail",
                                ret |-> "Ready"]
             ELSE /\ Commit(c1)
                  /\ yielded' = yielded
                  /\ g_failed' = g_failed
                  /\ lastOp' = [op |-> "tail",
                                ret |-> "Pending"]
    /\ timer_elapsed' = (fire /\ ~tick)
    /\ pc' = "idle"
    /\ UNCHANGED <<wire, pure>>

\* Sink::start_send: the request is applied.
StartSend(req) ==
    /\ pc = "idle"
    /\ LET r == apply(Self, req)
       IN /\ WithinBounds(r.c)
          /\ Commit(r.c)
          /\ pc' = AfterCall(r.err, "idle")
          /\ lastOp' = [op |-> "start_send", ret |-> r.err]
    /\ UNCHANGED <<wire, yielded, timer_elapsed, g_failed, pure>>

\* A variant of the loop of poll_flush that does not put the popped frame
\* back when the transport is not ready.
RECURSIVE flush_loop_lossy(_, _, _)
flush_loop_lossy(q, w, script) ==
    IF q = << >> THEN [q |-> q, w |-> w, ret |-> "Drained"]
    ELSE LET msg == Head(q)
             rest == Tail(q)
         IN CASE Head(script) = "Pending" -> [q |-> rest, w |-> w, ret |-> "Pending"]
              [] Head(script) = "Err" -> [q |-> rest, w |-> w, ret |-> "Err"]
              [] Head(script) = "Ready" -> flush_loop_lossy(rest, Append(w, msg.id), Tail(script))

\* The loop of Sink::poll_flush over a transport that takes the frames as
\* `script` says: Ready (the frame is handed over), Pending (the frame is
\* put back at the head) or Err (poll_ready or start_send fails).
RECURSIVE flush_loop(_, _, _)
flush_loop(q, w, script) ==
    IF q = << >> THEN [q |-> q, w |-> w, ret |-> "Drained"]
    ELSE LET msg == Head(q)
             rest == Tail(q)
         IN CASE Head(script) = "Pending" -> [q |-> <<msg>> \o rest, w |-> w, ret |-> "Pending"]
              [] Head(script) = "Err" -> [q |-> rest, w |-> w, ret |-> "Err"]
              [] Head(script) = "Ready" -> flush_loop(rest, Append(w, msg.id), Tail(script))

\* n frames are taken, then the transport answers `after`.
Script(n, after) == [i \in 1..(n + 1) |-> IF i <= n THEN "Ready" ELSE after]

\* Sink::poll_flush: the queue is drained into the WebSocket, then the
\* WebSocket is flushed (`flushed` is what its poll_flush returns).
PollFlush(n, after, flushed) ==
    /\ pc = "idle"
    /\ n <= Len(ws_outbox)
    /\ (n = Len(ws_outbox)) <=> (after = "Ready")
    /\ LET f == flush_loop(ws_outbox, wire, Script(n, after))
       IN /\ ws_outbox' = f.q
          /\ wire' = f.w
          /\ lastOp' = [op |-> "poll_flush",
                        ret |-> IF f.ret = "Drained" THEN flushed ELSE f.ret]
    /\ pc' = "idle"
    /\ UNCHANGED <<session_state, callbacks, tag_counter, epoch, response_timer, outbox,
                   user_jid, g_frames, g_events, g_recv, g_invoked, g_alloc, yielded,
                   timer_elapsed, g_failed, pure>>

\* The engine under inbound frames of every kind, with event delivery.
Next ==
    \/ \E m \in InFrames(g_frames) : PollNextRecv(m)
    \/ PollNextTail(FALSE, FALSE)
    \/ \E req \in RequestsDemux : StartSend(req)

Spec == Init /\ [][Next]_vars

\* The engine under requests of every kind, before and after the session
\* is established.
NextSend ==
    \/ \E m \in InFramesSend : PollNextRecv(m)
    \/ PollNextTail(FALSE, FALSE)
    \/ \E req \in Requests : StartSend(req)

SpecSend == Init /\ [][NextSend]_vars

\* The engine under the requests that allocate tags and stamp epochs in
\* each of the ways the code has.
NextTags ==
    \/ \E m \in InFramesSend : PollNextRecv(m)
    \/ PollNextTail(FALSE, FALSE)
    \/ \E req \in RequestsTags : StartSend(req)

SpecTags == Init /\ [][NextTags]_vars

\* The engine under every kind of inbound frame the server may send of its
\* own accord, well-formed or not.
NextSpont ==
    \/ \E m \in InFramesMore(g_frames) : PollNextRecv(m)
    \/ PollNextTail(FALSE, FALSE)
    \/ \E req \in RequestsSpont : StartSend(req)

SpecSpont == Init /\ [][NextSpont]_vars

\* The outbound queue under requests, callback sends, ping ticks and a
\* transport that is not always ready.
NextSink ==
    \/ \E m \in InFramesSink : PollNextRecv(m)
    \/ \E e \in {"WebsocketDisconnected", "Websocket"} : PollNextEnd(e)
    \/ \E tick \in BOOLEAN, fire \in BOOLEAN : PollNextTail(tick, fire)
    \/ \E req \in RequestsSink : StartSend(req)
    \/ \E n \in 0..MaxFrames, after \in {"Ready", "Pending", "Err"},
          flushed \in {"Ok", "Pending", "Err"} : PollFlush(n, after, flushed)

SpecSink == Init /\ [][NextSink]_vars

----------------------------------------------------------------------------
(* Functions that run apart from the engine: the engine stands still.      *)

EngineStill ==
    UNCHANGED <<session_state, callbacks, tag_counter, epoch, response_timer, ws_outbox,
                outbox, user_jid, pc, g_frames, g_events, g_recv, g_invoked, g_alloc,
                wire, yielded, timer_elapsed, g_failed>>

\* Values of a random byte: one that takes one hexadecimal digit, the
\* smallest that takes two, and the largest.
RandomBytes == {10, 16, 255}

\* SystemRandom::fill, one byte of it.
FillByte(b) ==
    /\ pure.fn = "generate" /\ pure.id = NoneOpt
    /\ Len(pure.random) < MessageIdBytes - Len(MessageIdPrefix)
    /\ pure' = [pure EXCEPT !.random = Append(@, b)]
    /\ lastOp' = [op |-> "fill"]
    /\ EngineStill

\* The rest of MessageId::generate once the bytes are filled in.
Generate ==
    /\ pure.fn = "generate" /\ pure.id = NoneOpt
    /\ Len(pure.random) = MessageIdBytes - Len(MessageIdPrefix)
    /\ pure' = [pure EXCEPT !.id = Some(MessageId_generate(pure.random))]
    /\ lastOp' = [op |-> "generate"]
    /\ EngineStill

InitIds ==
    /\ EngineInit(pending_new)
    /\ pure = [fn |-> "generate", random |-> << >>, id |-> NoneOpt]

NextIds ==
    \/ \E b \in RandomBytes : FillByte(b)
    \/ Generate

\* MessageId::generate over the values of its random bytes.
SpecIds == InitIds /\ [][NextIds]_vars

\* The most app events in one app message.
MaxAppEvents == 3

\* App events: two messages, one the engine lifts to another event, and
\* one that has no event.
AppEvents ==
    {[e |-> "Message", msg |-> "m1"], [e |-> "Message", msg |-> "m2"],
     [e |-> "Battery", level |-> 80], [e |-> "MessageRead", id |-> MidLong]}

\* The server puts one more app event into the app message.
AddAppEvent(event) ==
    /\ pure.fn = "from_app_message" /\ pure.out = NoneOpt
    /\ Len(pure.events) < MaxAppEvents
    /\ pure' = [pure EXCEPT !.events = Append(@, event)]
    /\ lastOp' = [op |-> "add_event"]
    /\ EngineStill

\* WaEvent::from_app_message on the app message.
Lift ==
    /\ pure.fn = "from_app_message" /\ pure.out = NoneOpt
    /\ pure' = [pure EXCEPT
                   !.out = Some(from_app_message(MessagesEvents(pure.event_type, pure.events)))]
    /\ lastOp' = [op |-> "from_app_message"]
    /\ EngineStill

InitLift ==
    /\ EngineInit(pending_new)
    /\ \E event_type \in {"Relay", "Set", None} :
           pure = [fn |-> "from_app_message", event_type |-> event_type, events |-> << >>,
                   out |-> NoneOpt]

NextLift ==
    \/ \E event \in AppEvents : AddAppEvent(event)
    \/ Lift

\* WaEvent::from_app_message over the app messages of every event type.
SpecLift == InitLift /\ [][NextLift]_vars

\* The longest text typed character by character.
MaxText == 3

\* Characters of a text: a digit, a letter, the separator and the plus sign.
TextChars == {"4", "a", "@", "+"}

\* The suffixes Jid::from_str knows, and one it does not.
TextSuffixes ==
    {SuffixIndividual, SuffixGroup, SuffixWhatsapp, SuffixBroadcast, <<"@", "x">>}

\* The caller writes a text, character by character or a suffix at once.
TypeChar(ch) ==
    /\ pure.fn = "jid" /\ pure.made = NoneOpt
    /\ Len(pure.text) < MaxText
    /\ pure' = [pure EXCEPT !.text = Append(@, ch)]
    /\ lastOp' = [op |-> "type"]
    /\ EngineStill

TypeSuffix(suffix) ==
    /\ pure.fn = "jid" /\ pure.made = NoneOpt
    /\ Len(pure.text) <= MaxText
    /\ pure' = [pure EXCEPT !.text = @ \o suffix]
    /\ lastOp' = [op |-> "type"]
    /\ EngineStill

\* The text is parsed as a jid, or as a phone number.
FromStr ==
    /\ pure.fn = "jid" /\ pure.made = NoneOpt
    /\ pure' = [pure EXCEPT !.made = Some([by |-> "from_str", res |-> Jid_from_str(pure.text)])]
    /\ lastOp' = [op |-> "from_str"]
    /\ EngineStill

FromPhonenumber ==
    /\ pure.fn = "jid" /\ pure.made = NoneOpt
    /\ pure' = [pure EXCEPT !.made = Some([by |-> "from_phonenumber",
                                           res |-> Jid_from_phonenumber(pure.text)])]
    /\ lastOp' = [op |-> "from_phonenumber"]
    /\ EngineStill

\* The caller builds a Jid from its public fields, with the text as the id.
JidLiteral(is_group) ==
    /\ pure.fn = "jid" /\ pure.made = NoneOpt
    /\ pure' = [pure EXCEPT !.made = Some([by |-> "literal",
                                           res |-> [ok |-> TRUE,
                                                    val |-> [id |-> pure.text,
                                                             is_group |-> is_group]]])]
    /\ lastOp' = [op |-> "literal"]
    /\ EngineStill

InitJid ==
    /\ EngineInit(pending_new)
    /\ pure = [fn |-> "jid", text |-> << >>, made |-> NoneOpt]

NextJid ==
    \/ \E ch \in TextChars : TypeChar(ch)
    \/ \E suffix \in TextSuffixes : TypeSuffix(suffix)
    \/ FromStr
    \/ FromPhonenumber
    \/ \E is_group \in BOOLEAN : JidLiteral(is_group)

\* The ways a Jid is made, over the texts a caller may write.
SpecJid == InitJid /\ [][NextJid]_vars

----------------------------------------------------------------------------
(* Properties of the callback table, the tags and the epochs.              *)

\* The inbound frame the last step received, as far as lastOp tells.
Received(m) == FrameTag(m) = lastOp'.tag /\ FrameKind(m) = lastOp'.kind /\ PollNextRecv(m)

\* A decodable inbound frame whose tag has a pending callback.
OnRegisteredTag(m) == FrameTag(m) # NoneOpt /\ FrameTag(m)[1] \in DOMAIN callbacks

\* The engine reads the frame to the end: a JSON frame, or a binary frame
\* that decrypts under the keys of the session to the bytes of a node.
Decoded(m) ==
    \/ FrameKind(m) = "Json"
    \/ /\ FrameKind(m) = "BinarySimple"
       /\ LET dec == decrypt_binary_message(Self, deserialize(m)[1].payload.bytes)
          IN dec.ok /\ Node_deserialize(dec.val).ok

\* C1, as stated: after the engine processes any inbound frame, of any
\* payload kind and whether or not it decodes, whose tag has a registered
\* callback, that tag is no longer in the callback table.
C1_AnyFrameConsumes ==
    [][lastOp'.op = "recv" =>
          \A m \in InFrames(g_frames) :
              (Received(m) /\ OnRegisteredTag(m)) =>
                  FrameTag(m)[1] \notin DOMAIN callbacks']_vars

\* C1, amended: after a Json frame, or a BinarySimple frame that decrypts
\* and decodes to a node, whose tag has a registered callback, that tag is
\* no longer in the callback table; a frame of any other kind, or one that
\* does not decrypt or decode, leaves the callback table as it was.
C1_DecodedFrameConsumes ==
    [][lastOp'.op = "recv" =>
          \A m \in InFrames(g_frames) :
              (Received(m) /\ OnRegisteredTag(m)) =>
                  IF Decoded(m)
                  THEN FrameTag(m)[1] \notin DOMAIN callbacks'
                  ELSE callbacks' = callbacks]_vars

\* A binary frame on the tag of a history request has just been decoded:
\* the request's handler ran and queued its event, and the tag is gone.
C1_Witness ==
    /\ lastOp.op = "recv" /\ lastOp.kind = "BinarySimple" /\ lastOp.tag # NoneOpt
    /\ lastOp.tag[1] \notin DOMAIN callbacks
    /\ \E id \in DOMAIN g_invoked : g_frames[id].tag = lastOp.tag[1] /\ g_invoked[id] = 1
    /\ \E i \in DOMAIN outbox :
           outbox[i].src = g_recv /\ outbox[i].evt.type = "MessageHistory"

\* C2: for every callback registration (one send_ws_message call) the
\* handler is invoked at most once over the whole run, also when frames
\* with the same tag are repeated.
C2_InvokedAtMostOnce == \A id \in DOMAIN g_invoked : g_invoked[id] <= 1

\* The init response arrived on tag "0" and its handler queued the QR
\* code; now a second JSON frame with tag "0" has been processed.
C2_Witness ==
    /\ g_recv = 2
    /\ lastOp.op = "recv" /\ lastOp.kind = "Json" /\ lastOp.tag = Some(to_string(0))
    /\ g_frames[1].tag = to_string(0) /\ g_invoked[1] = 1
    /\ \E i \in DOMAIN outbox : outbox[i].src = 1 /\ outbox[i].evt.type = "ScanCode"

\* Reading a string of decimal digits back as a number.
DigitValue(ch) == CHOOSE d \in 0..9 : DigitChar[d + 1] = ch

IsDecimal(s) == Len(s) > 0 /\ \A i \in 1..Len(s) : \E d \in 0..9 : DigitChar[d + 1] = s[i]

RECURSIVE parse_u32(_)
parse_u32(s) ==
    IF Len(s) = 1 THEN DigitValue(s[1])
    ELSE 10 * parse_u32(SubSeq(s, 1, Len(s) - 1)) + DigitValue(s[Len(s)])

\* C3: the tags returned by alloc_message_tag are the decimal renderings
\* of a counter that starts at 0 and grows by exactly one per allocation,
\* so they are strictly increasing and no two are equal.
C3_TagsCountUp ==
    /\ tag_counter = Len(g_alloc)
    /\ \A i \in DOMAIN g_alloc : IsDecimal(g_alloc[i]) /\ parse_u32(g_alloc[i]) = i - 1
    /\ \A i, j \in DOMAIN g_alloc : i < j => g_alloc[i] # g_alloc[j]

\* Three tags were allocated, one of them for an app message.
C3_Witness ==
    /\ Len(g_alloc) = 3
    /\ \E id \in DOMAIN g_frames :
           g_frames[id].app /\ \E i \in DOMAIN g_alloc : g_alloc[i] = g_frames[id].tag

\* C4, as stated: no outbound frame is registered under a tag that has a
\* pending callback, and the tags of all outbound frames (allocated by the
\* engine or supplied by the caller) are pairwise distinct.
C4_TagsNeverCollide ==
    [][\A id \in DOMAIN g_frames' :
          (id > Len(g_frames) /\ g_frames'[id].tag # NoneOpt) =>
              /\ g_frames'[id].tag \notin DOMAIN callbacks
              /\ \A other \in DOMAIN g_frames : g_frames[other].tag # g_frames'[id].tag]_vars

\* C5: each outbound app message carries an epoch strictly greater than
\* the epoch of the previous outbound app message.
C5_EpochsIncrease ==
    \A i, j \in DOMAIN g_frames :
        (i < j /\ g_frames[i].app /\ g_frames[j].app) => g_frames[i].epoch < g_frames[j].epoch

\* Two app messages were queued.
C5_Witness ==
    \E i, j \in DOMAIN g_frames : i < j /\ g_frames[i].app /\ g_frames[j].app

----------------------------------------------------------------------------
(* Properties of the session state.                                        *)

\* A JSON frame the engine reads as the server message ConnectionAck.
IsConnectionAck(m) ==
    /\ FrameKind(m) = "Json"
    /\ ~OnRegisteredTag(m)
    /\ LET r == ServerMessage_deserialize(deserialize(m)[1].payload.json)
       IN r.ok /\ r.val.msg = "ConnectionAck"

Pending == {"PendingNew", "PendingPersistent"}

\* C6: the session changes variant only by a ConnectionAck that moves
\* PendingNew or PendingPersistent to Established, so at most once and
\* never out of Established; a ConnectionAck received while Established
\* fails with InvalidSessionState and leaves the session as it was.
C6_SessionLifecycle ==
    [][/\ session_state'.variant # session_state.variant =>
              /\ session_state.variant \in Pending
              /\ session_state'.variant = "Established"
              /\ \E m \in InFrames(g_frames) : Received(m) /\ IsConnectionAck(m)
       /\ (lastOp'.op = "recv" /\ session_state.variant = "Established") =>
              \A m \in InFrames(g_frames) :
                  (Received(m) /\ IsConnectionAck(m)) =>
                      lastOp'.ret = "InvalidSessionState" /\ session_state' = session_state]_vars

\* The session is established and a second ConnectionAck was refused.
C6_Witness ==
    /\ session_state.variant = "Established"
    /\ g_recv = 2
    /\ lastOp.op = "recv" /\ lastOp.kind = "Json" /\ lastOp.tag = Some(ServerTag)
    /\ lastOp.ret = "InvalidSessionState"

\* The requests that carry a Node payload.
NodeRequests ==
    {req \in Requests :
        /\ req.type \in {"MessagePlayed", "MessageRead", "SetPresence", "SetStatus",
                         "SetNotifyName", "SetProfileBlocked", "ChatAction", "SendMessage",
                         "CreateGroup", "ChangeGroupParticipants", "GetMessageHistoryBefore"}
        /\ req.type = "SendMessage" => req.msg.direction = "Sending"}

\* C7, as stated: every request with a Node payload applied while the
\* session is PendingNew or PendingPersistent returns InvalidSessionState,
\* enqueues no outbound frame and registers no callback.
C7_PendingRejectsNodeRequests ==
    [][(lastOp'.op = "start_send" /\ session_state.variant \in Pending) =>
          \A req \in NodeRequests :
              StartSend(req) =>
                  /\ lastOp'.ret = "InvalidSessionState"
                  /\ ws_outbox' = ws_outbox
                  /\ g_frames' = g_frames
                  /\ callbacks' = callbacks]_vars

----------------------------------------------------------------------------
(* Properties of the two queues and of the response timer.                 *)

\* The frame is a keepalive: it carries no tag.
IsKeepalive(id) == g_frames[id].tag = NoneOpt

\* C8, as stated: frames are handed to the WebSocket in the order in which
\* they were enqueued, for any interleaving of requests, callback sends,
\* ping ticks and partial flushes.
C8_SentInEnqueueOrder ==
    \A i, j \in DOMAIN wire : i < j => wire[i] < wire[j]

\* C8, amended: the frames enqueued by send_ws_message (requests and
\* callback sends) are handed to the WebSocket in enqueue order; only a
\* keepalive, which a ping tick puts at the head of the queue, is sent
\* before frames enqueued earlier.
C8_OnlyKeepalivesOvertake ==
    \A i, j \in DOMAIN wire : (i < j /\ wire[i] > wire[j]) => IsKeepalive(wire[i])

\* Three frames went out: a keepalive ahead of a frame enqueued before it,
\* and two tagged frames in their enqueue order.
C8_Witness ==
    /\ Len(wire) = 3
    /\ \E i, j \in DOMAIN wire : i < j /\ wire[i] > wire[j]
    /\ \E i, j \in DOMAIN wire :
           i < j /\ wire[i] < wire[j] /\ ~IsKeepalive(wire[i]) /\ ~IsKeepalive(wire[j])

\* The events returned so far followed by the events still queued.
Delivery ==
    [i \in 1..Len(yielded) |-> [id |-> yielded[i].id, src |-> yielded[i].src]]
    \o [i \in 1..Len(outbox) |-> [id |-> outbox[i].id, src |-> outbox[i].src]]

\* C9: poll_next yields the events in exactly the order they were
\* generated (none lost, none duplicated), and the events of one inbound
\* frame are all generated before any event of a later frame.
C9_EventsInOrder ==
    /\ Len(Delivery) = g_events
    /\ \A i \in DOMAIN Delivery : Delivery[i].id = i
    /\ \A i, j \in DOMAIN Delivery : i < j => Delivery[i].src <= Delivery[j].src

\* Four events were returned: the last two came from the same frame, the
\* ones before from earlier frames.
C9_Witness ==
    /\ Len(yielded) = 4
    /\ yielded[4].src = 2 /\ yielded[3].src = 2 /\ yielded[2].src = 1

\* C10: the response timer is armed only when a keepalive is enqueued;
\* each ping tick enqueues exactly one keepalive frame, allocates no tag,
\* registers no callback and arms the timer; the receipt of any inbound
\* frame, decodable or not, disarms the timer.
C10_ResponseTimer ==
    [][/\ (~response_timer /\ response_timer') =>
              /\ Len(g_frames') = Len(g_frames) + 1
              /\ ws_outbox' # << >>
              /\ Head(ws_outbox') = [id |-> Len(g_frames'), frame |-> Keepalive]
       /\ lastOp'.op = "tail" =>
              \A fire \in BOOLEAN :
                  PollNextTail(TRUE, fire) =>
                      /\ ws_outbox' = <<[id |-> Len(g_frames) + 1, frame |-> Keepalive]>> \o ws_outbox
                      /\ response_timer'
                      /\ tag_counter' = tag_counter
                      /\ g_alloc' = g_alloc
                      /\ callbacks' = callbacks
       /\ lastOp'.op = "recv" =>
              \A m \in InFramesSink : Received(m) => ~response_timer']_vars

\* A keepalive is queued, its timer was armed, and a frame that cannot be
\* decoded has just disarmed it.
C10_Witness ==
    /\ lastOp.op = "recv" /\ lastOp.kind = "Undecodable" /\ lastOp.armed
    /\ ~response_timer
    /\ \E i \in DOMAIN ws_outbox : ws_outbox[i].frame = Keepalive

----------------------------------------------------------------------------
(* Properties of the errors poll_next returns.                             *)

\* poll_next returned an error of this origin at some earlier moment.
Failed(by) == g_failed # NoneOpt /\ g_failed[1].by = by

\* C11, as stated: when the response timer fires poll_next returns the
\* error Timeout and the stream is closed: after the Timeout the stream
\* yields no further event and no further error.
C11_TimeoutClosesStream ==
    [][/\ PollNextTail(FALSE, TRUE) => lastOp'.ret = "Timeout"
       /\ Failed("timer") =>
              /\ yielded' = yielded
              /\ (lastOp' # lastOp /\ lastOp'.op \in {"recv", "tail", "end"}) =>
                     lastOp'.ret \in {"Ok", "Pending"}]_vars

\* C12, as stated: when a callback handler fails, the error is returned by
\* poll_next and the stream ends: every later poll_next yields no further
\* event and processes no further inbound frame.
C12_HandlerFailureEndsStream ==
    [][/\ lastOp'.op = "recv" =>
              \A m \in InFrames(g_frames) :
                  (Received(m) /\ g_invoked' # g_invoked /\ lastOp'.ret # "Ok") =>
                      pc' = "idle" /\ yielded' = yielded
       /\ Failed("callback") => (yielded' = yielded /\ g_recv' = g_recv)]_vars

\* A JSON frame on a tag without a callback that the engine reads as the
\* server message `msg`.
IsServerMessage(m, msg) ==
    /\ FrameKind(m) = "Json"
    /\ ~OnRegisteredTag(m)
    /\ LET r == ServerMessage_deserialize(deserialize(m)[1].payload.json)
       IN r.ok /\ r.val.msg = msg

\* The reason payload of a Disconnect message, None when it has none.
DisconnectKind(m) == ServerMessage_deserialize(deserialize(m)[1].payload.json).val.kind

\* C13: a spontaneous server Disconnect message makes poll_next return
\* the error Disconnected, with reason Replaced when the message carries a
\* reason payload and Removed when it carries none, in every session state.
C13_DisconnectSurfaced ==
    [][lastOp'.op = "recv" =>
          \A m \in InFramesMore(g_frames) :
              (Received(m) /\ IsServerMessage(m, "Disconnect")) =>
                  /\ pc' = "idle"
                  /\ lastOp'.ret = IF DisconnectKind(m) # None THEN "Disconnected(Replaced)"
                                   ELSE "Disconnected(Removed)"]_vars

\* An established session was told it is removed.
C13_Witness ==
    /\ session_state.variant = "Established"
    /\ lastOp.op = "recv" /\ lastOp.ret = "Disconnected(Removed)"
    /\ pc = "idle"

\* The secret of a ConnectionAck message.
AckSecret(m) == ServerMessage_deserialize(deserialize(m)[1].payload.json).val.secret

\* C14, as stated: processing an inbound frame whose tag matches no
\* registered callback never makes poll_next return an error, in any
\* session state, except Disconnected for a server Disconnect message.
C14_SpontaneousNeverFails ==
    [][lastOp'.op = "recv" =>
          \A m \in InFramesMore(g_frames) :
              (Received(m) /\ ~OnRegisteredTag(m)) =>
                  \/ lastOp'.ret = "Ok"
                  \/ /\ IsServerMessage(m, "Disconnect")
                     /\ lastOp'.ret \in {"Disconnected(Replaced)", "Disconnected(Removed)"}]_vars

\* What processing a frame without a callback returns, by the table of the
\* amended claim.
SpontaneousResult(m) ==
    CASE IsServerMessage(m, "Disconnect") ->
            IF DisconnectKind(m) # None THEN "Disconnected(Replaced)" ELSE "Disconnected(Removed)"
      [] IsServerMessage(m, "ConnectionAck") /\ session_state.variant = "Established" ->
            "InvalidSessionState"
      [] IsServerMessage(m, "ConnectionAck") /\ session_state.variant = "PendingNew" ->
            IF AckSecret(m) = None THEN "JsonFieldMissing"
            ELSE IF ~base64_decode(AckSecret(m)).ok THEN "Base64"
            ELSE IF session_state.private_key = None THEN "Panic"
            ELSE IF ~calculate_secret_keys(AckSecret(m), session_state.private_key).ok
            THEN "Crypto"
            ELSE "Ok"
      [] IsServerMessage(m, "ChallengeRequest") /\ session_state.variant = "PendingNew" ->
            "InvalidSessionState"
      [] FrameKind(m) = "Empty" /\ str_len(FrameTag(m)[1]) > 10 /\ user_jid = NoneOpt ->
            "NoJidYet"
      [] OTHER -> "Ok"

\* C14, amended: a frame whose tag matches no registered callback makes
\* poll_next return an error only in these cases: Disconnected for a
\* Disconnect; InvalidSessionState for a ConnectionAck while Established
\* and for a ChallengeRequest while PendingNew; JsonFieldMissing, Base64
\* or Crypto for a ConnectionAck while PendingNew whose secret is missing,
\* is no base64 or is rejected by the key derivation (and a panic when an
\* earlier rejected ConnectionAck has used up the private key); NoJidYet
\* for an Empty frame whose tag is longer than 10 bytes while the user jid
\* is not known.  Every other such frame returns no error.
C14_SpontaneousErrors ==
    [][lastOp'.op = "recv" =>
          \A m \in InFramesMore(g_frames) :
              (Received(m) /\ ~OnRegisteredTag(m)) => lastOp'.ret = SpontaneousResult(m)]_vars

\* An Empty frame with a message id as its tag arrived before the login
\* was acknowledged and poll_next returned NoJidYet.
C14_Witness ==
    /\ lastOp.op = "recv" /\ lastOp.kind = "Empty" /\ lastOp.ret = "NoJidYet"
    /\ lastOp.tag[1] \notin DOMAIN callbacks
    /\ session_state.variant \in Pending

\* The frame fails to decode at some layer: it is no `tag,payload`; its
\* binary payload does not decrypt under the keys of the session, or
\* decrypts to bytes that are no node, or to a node that is no app message;
\* its JSON payload is no server message.
DecodeFails(m) ==
    \/ deserialize(m) = NoneOpt
    \/ /\ FrameKind(m) = "BinarySimple"
       /\ LET dec == decrypt_binary_message(Self, deserialize(m)[1].payload.bytes)
          IN \/ ~dec.ok
             \/ ~Node_deserialize(dec.val).ok
             \/ ~AppMessage_deserialize(Node_deserialize(dec.val).val).ok
    \/ /\ FrameKind(m) = "Json"
       /\ ~ServerMessage_deserialize(deserialize(m)[1].payload.json).ok

\* C15: an inbound frame with no matching callback that fails to decode at
\* any layer yields no error and no event, and leaves the session state,
\* the callback table, the tag counter, the epoch and both queues
\* unchanged; the stream stays open.
C15_DecodeFailureSwallowed ==
    [][lastOp'.op = "recv" =>
          \A m \in InFramesMore(g_frames) :
              (Received(m) /\ ~OnRegisteredTag(m) /\ DecodeFails(m)) =>
                  /\ lastOp'.ret = "Ok"
                  /\ pc' # "idle"
                  /\ UNCHANGED <<outbox, ws_outbox, session_state, callbacks,
                                 tag_counter, epoch, user_jid>>]_vars

\* A binary frame on a tag without a callback arrived before the session
\* had keys, so it failed to decrypt, and poll_next went on.
C15_Witness ==
    /\ lastOp.op = "recv" /\ lastOp.kind = "BinarySimple" /\ lastOp.ret = "Ok"
    /\ lastOp.tag = Some(ServerTag)
    /\ session_state.variant \in Pending
    /\ pc = "polling"

\* The binary payload of the frame fails verify-and-decrypt under the keys
\* of the established session.
DecryptFails(m) ==
    /\ FrameKind(m) = "BinarySimple"
    /\ session_state.variant = "Established"
    /\ ~decrypt_binary_message(Self, deserialize(m)[1].payload.bytes).ok

\* C16: an inbound binary frame that fails verify-and-decrypt makes
\* poll_next return an error when its tag has a registered callback, and
\* is dropped without an error when its tag has none.
C16_DecryptFailureFatalInCallback ==
    [][lastOp'.op = "recv" =>
          \A m \in InFramesMore(g_frames) :
              (Received(m) /\ DecryptFails(m)) =>
                  IF OnRegisteredTag(m) THEN lastOp'.ret # "Ok"
                  ELSE lastOp'.ret = "Ok" /\ outbox' = outbox]_vars

----------------------------------------------------------------------------
(* Properties of the responses to sent messages.                           *)

\* The JSON document of a frame.
JsonOf(m) == deserialize(m)[1].payload.json

\* A JSON frame on a tag whose registered callback is of the given type.
IsResponseTo(m, type) ==
    /\ FrameKind(m) = "Json"
    /\ OnRegisteredTag(m)
    /\ callbacks[FrameTag(m)[1]].ct.type = type

\* The events the step has appended to the outbox.
NewEvents == [i \in 1..(Len(outbox') - Len(outbox)) |-> outbox'[Len(outbox) + i].evt]

\* C17: when the response to a sent message (an ack with a status code and
\* a timestamp) arrives on the tag equal to its message id M, status 200
\* generates exactly one MessageAck with level Sent, the timestamp of the
\* response and id M, and another status exactly one MessageSendFail with
\* mid M and the status, without an error.  A status other than 200 in a
\* CheckStatus callback makes poll_next return StatusCode.
C17_AckOrSendFail ==
    [][lastOp'.op = "recv" =>
          \A m \in InFrames(g_frames) :
              Received(m) =>
                  /\ (/\ IsResponseTo(m, "ProcessAck")
                      /\ callbacks[FrameTag(m)[1]].ct.mid = FrameTag(m)[1]
                      /\ LowLevelAck_deserialize(JsonOf(m)).ok) =>
                         /\ lastOp'.ret = "Ok"
                         /\ Len(outbox') >= Len(outbox)
                         /\ SubSeq(outbox', 1, Len(outbox)) = outbox
                         /\ Len(NewEvents) = 1
                         /\ IF JsonOf(m).status = 200
                            THEN /\ NewEvents[1].type = "MessageAck"
                                 /\ NewEvents[1].ack.level = "Sent"
                                 /\ NewEvents[1].ack.time = JsonOf(m).t
                                 /\ NewEvents[1].ack.id = FrameTag(m)[1]
                            ELSE NewEvents[1] = [type |-> "MessageSendFail",
                                                 mid |-> FrameTag(m)[1],
                                                 status |-> JsonOf(m).status]
                  /\ (/\ IsResponseTo(m, "CheckStatus")
                      /\ JsonOf(m).shape = "object" /\ JsonOf(m).status # 200) =>
                         /\ lastOp'.ret = "StatusCode"
                         /\ outbox' = outbox
                         /\ pc' = "idle"]_vars

\* The server has refused a sent message: its response on the tag of the
\* message had status 401, a MessageSendFail is the newest event, and
\* poll_next went on without an error.
C17_Witness ==
    /\ lastOp.op = "recv" /\ lastOp.kind = "Json" /\ lastOp.ret = "Ok"
    /\ lastOp.tag = Some(MidLong)
    /\ outbox # << >>
    /\ outbox[Len(outbox)].evt = [type |-> "MessageSendFail", mid |-> MidLong, status |-> 401]

\* The acknowledgement an Empty frame stands for.
EmptyAck(tag) ==
    [type |-> "MessageAck",
     ack |-> [level |-> "PendingSend", time |-> None, id |-> tag, own |-> user_jid[1]]]

\* C18, as stated: when an inbound Empty frame arrives, a tag longer than
\* 10 characters generates exactly one MessageAck with level PendingSend
\* and id equal to the tag, and a tag of 10 characters or fewer generates
\* no event.
C18_EmptyAckByCharacters ==
    [][lastOp'.op = "recv" =>
          \A m \in InFramesMore(g_frames) :
              (Received(m) /\ FrameKind(m) = "Empty") =>
                  IF Len(FrameTag(m)[1]) > 10
                  THEN /\ Len(outbox') = Len(outbox) + 1
                       /\ NewEvents[1].type = "MessageAck"
                       /\ NewEvents[1].ack.level = "PendingSend"
                       /\ NewEvents[1].ack.id = FrameTag(m)[1]
                  ELSE outbox' = outbox]_vars

\* C18, amended: when an inbound Empty frame arrives, a tag longer than 10
\* bytes generates exactly one MessageAck with level PendingSend and id
\* equal to the tag if the user jid is known, and no event but the error
\* NoJidYet if it is not; a tag of 10 bytes or fewer generates no event
\* and no error.
C18_EmptyAckByBytes ==
    [][lastOp'.op = "recv" =>
          \A m \in InFramesMore(g_frames) :
              (Received(m) /\ FrameKind(m) = "Empty") =>
                  IF str_len(FrameTag(m)[1]) <= 10
                  THEN lastOp'.ret = "Ok" /\ outbox' = outbox
                  ELSE IF user_jid = NoneOpt
                  THEN lastOp'.ret = "NoJidYet" /\ outbox' = outbox
                  ELSE /\ lastOp'.ret = "Ok"
                       /\ outbox' = Append(outbox, outbox'[Len(outbox')])
                       /\ NewEvents = <<EmptyAck(FrameTag(m)[1])>>]_vars

\* An Empty frame whose tag has six characters and twelve bytes arrived in
\* an established session and the ack for that tag is the newest event.
C18_Witness ==
    /\ lastOp.op = "recv" /\ lastOp.kind = "Empty" /\ lastOp.ret = "Ok"
    /\ lastOp.tag = Some(MidWide)
    /\ user_jid # NoneOpt
    /\ outbox # << >>
    /\ outbox[Len(outbox)].evt = EmptyAck(MidWide)

----------------------------------------------------------------------------
(* Properties of the login.                                                *)

\* The events the step has generated, in order: those of the outbox that
\* did not exist before.
Generated == SelectSeq([i \in DOMAIN outbox' |-> outbox'[i]], LAMBDA e : e.id > g_events)

GeneratedOf(type) == SelectSeq(Generated, LAMBDA e : e.evt.type = type)

\* The QR code of a new login: `ref,base64(pub),base64(client_id)`.
LoginQr(ref) ==
    [qr |-> <<ref, base64_encode(session_state.public_key),
              base64_encode(session_state.client_id)>>]

\* C19, as stated: a JSON response on tag "0" while PendingNew generates
\* exactly one ScanCode event built from `ref,base64(pub),base64(client_id)`
\* and leaves the session PendingNew.
C19_AnyResponseGivesScanCode ==
    [][lastOp'.op = "recv" =>
          \A m \in InFramesMore(g_frames) :
              (/\ Received(m)
               /\ IsResponseTo(m, "LoginNew")
               /\ session_state.variant = "PendingNew") =>
                  /\ Len(Generated) = 1
                  /\ Generated[1].evt.type = "ScanCode"
                  /\ session_state'.variant = "PendingNew"]_vars

\* While the session is PendingNew the first frame sent is the init
\* request under tag "0", and until its handler has run the LoginNew
\* callback is registered under that tag and under no other.
NewLoginUnderTagZero ==
    session_state.variant = "PendingNew" =>
        /\ g_frames # << >> /\ g_frames[1].tag = to_string(0)
        /\ g_invoked[1] = 0 =>
               (to_string(0) \in DOMAIN callbacks /\ callbacks[to_string(0)].ct = Ct("LoginNew"))
        /\ \A t \in DOMAIN callbacks :
               callbacks[t].ct.type = "LoginNew" => (t = to_string(0) /\ callbacks[t].reg = 1)

\* C19, amended: on a new-session connection the init request is sent
\* under tag "0" with the LoginNew callback.  While PendingNew, a JSON
\* response on that tag with status 200 and a ref that fits a QR code
\* generates exactly one ScanCode event built from
\* `ref,base64(pub),base64(client_id)`; any other JSON response on that tag
\* generates no event and makes poll_next return an error; either way the
\* session stays as it is.  A ScanCode is generated only by the first run
\* of that handler, so at most once, and only while PendingNew.
C19_ScanCode ==
    /\ []NewLoginUnderTagZero
    /\ [][/\ lastOp'.op = "recv" =>
                \A m \in InFramesMore(g_frames) :
                    (/\ Received(m)
                     /\ IsResponseTo(m, "LoginNew")
                     /\ session_state.variant = "PendingNew") =>
                        /\ session_state' = session_state
                        /\ IF /\ parse_init_response(JsonOf(m)).ok
                              /\ QrCode_new(LoginQr(JsonOf(m).ref).qr).ok
                           THEN /\ lastOp'.ret = "Ok"
                                /\ Len(Generated) = 1
                                /\ Generated[1].evt = [type |-> "ScanCode",
                                                       qr |-> LoginQr(JsonOf(m).ref)]
                           ELSE /\ lastOp'.ret \in {"StatusCode", "JsonFieldMissing", "Qr"}
                                /\ Generated = << >>
          /\ GeneratedOf("ScanCode") # << >> =>
                /\ lastOp'.op = "recv"
                /\ session_state.variant = "PendingNew"
                /\ session_state'.variant = "PendingNew"
                /\ g_invoked[1] = 0 /\ g_invoked'[1] = 1
                /\ Len(GeneratedOf("ScanCode")) = 1]_vars

\* The init response of a new login arrived on tag "0": its handler has
\* run, the QR code is the newest event and the session is still PendingNew.
C19_Witness ==
    /\ lastOp.op = "recv" /\ lastOp.kind = "Json" /\ lastOp.ret = "Ok"
    /\ lastOp.tag = Some(to_string(0))
    /\ session_state.variant = "PendingNew"
    /\ g_invoked[1] = 1
    /\ outbox # << >>
    /\ outbox[Len(outbox)].evt =
           [type |-> "ScanCode",
            qr |-> [qr |-> <<"R", base64_encode("pub-new"), base64_encode("cid-new")>>]]

\* C20: a SessionEstablished event is generated exactly when the session
\* becomes Established, which happens at most once since an established
\* session stays established, and only by a ConnectionAck that poll_next
\* processes without error; the persistent session and the jid the event
\* carries are the session and the user jid the engine stores.
C20_SessionEstablishedOnTransition ==
    [][/\ (session_state.variant # "Established" /\ session_state'.variant = "Established")
              <=> GeneratedOf("SessionEstablished") # << >>
       /\ session_state.variant = "Established" => session_state'.variant = "Established"
       /\ GeneratedOf("SessionEstablished") # << >> =>
              /\ Len(GeneratedOf("SessionEstablished")) = 1
              /\ lastOp'.op = "recv" /\ lastOp'.kind = "Json" /\ lastOp'.ret = "Ok"
              /\ user_jid' # NoneOpt
              /\ GeneratedOf("SessionEstablished")[1].evt =
                     [type |-> "SessionEstablished",
                      persistent |-> session_state'.persistent_session,
                      jid |-> user_jid'[1]]]_vars

\* A persistent login has been acknowledged: the session is established
\* with fresh tokens and the event carrying it is the newest in the outbox.
C20_Witness ==
    /\ lastOp.op = "recv" /\ lastOp.kind = "Json" /\ lastOp.ret = "Ok"
    /\ session_state.variant = "Established"
    /\ session_state.persistent_session.client_token = "ct-fresh"
    /\ session_state.persistent_session.enc = SavedSession.enc
    /\ outbox # << >>
    /\ outbox[Len(outbox)].evt =
           [type |-> "SessionEstablished",
            persistent |-> session_state.persistent_session, jid |-> user_jid[1]]

\* The tokens a ConnectionAck carries.
AckTokens(m) ==
    LET r == ServerMessage_deserialize(JsonOf(m)).val
    IN [client_token |-> r.client_token, server_token |-> r.server_token]

\* C21: a ConnectionAck handled in PendingPersistent produces an Established
\* session whose enc, mac and client_id are those of the restored
\* persistent session; only client_token and server_token take the values
\* the ConnectionAck carries.
C21_PersistentKeysRetained ==
    [][lastOp'.op = "recv" =>
          \A m \in InFrames(g_frames) :
              (/\ Received(m)
               /\ IsServerMessage(m, "ConnectionAck")
               /\ session_state.variant = "PendingPersistent") =>
                  LET old == session_state.persistent_session
                  IN /\ lastOp'.ret = "Ok"
                     /\ session_state'.variant = "Established"
                     /\ session_state'.persistent_session =
                            [old EXCEPT !.client_token = AckTokens(m).client_token,
                                        !.server_token = AckTokens(m).server_token]
                     /\ session_state'.persistent_session.enc = old.enc
                     /\ session_state'.persistent_session.mac = old.mac
                     /\ session_state'.persistent_session.client_id = old.client_id]_vars

\* The saved session has been restored and acknowledged: its keys and
\* client id are kept and its tokens are the fresh ones.
C21_Witness ==
    /\ lastOp.op = "recv" /\ lastOp.kind = "Json" /\ lastOp.ret = "Ok"
    /\ session_state = Established([SavedSession EXCEPT !.client_token = "ct-fresh",
                                                         !.server_token = "st-fresh"])
    /\ SavedSession.client_token # "ct-fresh" /\ SavedSession.server_token # "st-fresh"
    /\ g_recv = 1

----------------------------------------------------------------------------
(* Properties of the requests.                                             *)

\* The request the last step applied.
Applied(req) == lastOp'.op = "start_send" /\ StartSend(req)

\* C23: SendMessage with a ChatMessage whose direction is not Sending fails
\* with InvalidDirection and leaves the engine as it was: epoch, tag
\* counter, callback table, outbound queue and event queue, in every
\* session state.
C23_InvalidDirectionChangesNothing ==
    [][lastOp'.op = "start_send" =>
          \A req \in Requests :
              (/\ Applied(req)
               /\ req.type = "SendMessage"
               /\ req.msg.direction # "Sending") =>
                  /\ lastOp'.ret = "InvalidDirection"
                  /\ UNCHANGED <<epoch, tag_counter, callbacks, ws_outbox, outbox,
                                 session_state, response_timer, user_jid, g_frames>>]_vars

\* A message that was received, not written, was handed to an established
\* session for sending and refused; nothing has been sent but the login.
C23_Witness ==
    /\ lastOp.op = "start_send" /\ lastOp.ret = "InvalidDirection"
    /\ session_state.variant = "Established"
    /\ Len(g_frames) = 1
    /\ epoch = 0

\* The step has queued exactly one frame, under the given tag, and has
\* registered the callback under that tag.
QueuedUnder(tag, ct) ==
    /\ Len(ws_outbox') = Len(ws_outbox) + 1
    /\ SubSeq(ws_outbox', 1, Len(ws_outbox)) = ws_outbox
    /\ FrameTag(ws_outbox'[Len(ws_outbox')].frame) = Some(tag)
    /\ Len(g_frames') = Len(g_frames) + 1
    /\ g_frames'[Len(g_frames')].tag = tag
    /\ tag \in DOMAIN callbacks'
    /\ callbacks'[tag].ct = ct
    /\ callbacks'[tag].reg = Len(g_frames')

\* C24: a successful SendMessage uses the message id as the frame tag: it
\* registers ProcessAck{mid} under the message id, queues exactly one
\* frame, and does not advance the tag counter.
C24_SendMessageTaggedByMessageId ==
    [][lastOp'.op = "start_send" =>
          \A req \in Requests :
              (Applied(req) /\ req.type = "SendMessage" /\ lastOp'.ret = "Ok") =>
                  /\ QueuedUnder(req.msg.id, CtProcessAck(req.msg.id))
                  /\ tag_counter' = tag_counter]_vars

\* A message has been sent in an established session: the newest frame
\* carries the message id as its tag, the ack callback waits under it, and
\* the tag counter still stands at one, after the login.
C24_Witness ==
    /\ lastOp.op = "start_send" /\ lastOp.ret = "Ok"
    /\ g_frames[Len(g_frames)].tag = MidLong
    /\ MidLong \in DOMAIN callbacks /\ callbacks[MidLong].ct = CtProcessAck(MidLong)
    /\ tag_counter = 1
    /\ Len(ws_outbox) >= 1

\* The text of the uuid of the history requests, as a tag.
UuidTag == <<"u", "u", "i", "d", "-", "1">>

\* C25: a successful GetMessageHistoryBefore uses the history uuid the
\* caller supplies as the frame tag: the MessagesBefore{uuid} callback is
\* registered under the uuid and the tag counter is not advanced.
C25_HistoryTaggedByUuid ==
    [][lastOp'.op = "start_send" =>
          \A req \in Requests :
              (/\ Applied(req)
               /\ req.type = "GetMessageHistoryBefore"
               /\ req.uuid = TheUuid
               /\ lastOp'.ret = "Ok") =>
                  /\ tag_counter' = tag_counter
                  /\ QueuedUnder(UuidTag, CtUuid("MessagesBefore", req.uuid))]_vars

----------------------------------------------------------------------------
(* Properties of the functions that run apart from the engine.             *)

\* C26: MessageId::generate returns a string of exactly 24 upper-case
\* hexadecimal characters that starts with 3EB0, for every value of the 10
\* random bytes.
C26_MessageIdFormat ==
    (pure.fn = "generate" /\ pure.id # NoneOpt) =>
        LET id == pure.id[1]
        IN /\ Len(id) = 24
           /\ \A i \in DOMAIN id : \E d \in DOMAIN HexDigit : id[i] = HexDigit[d]
           /\ SubSeq(id, 1, 4) = <<"3", "E", "B", "0">>

\* A Jid has been made, and how.
Made(by) == pure.fn = "jid" /\ pure.made # NoneOpt /\ pure.made[1].by \in by /\ pure.made[1].res.ok

TheMade == pure.made[1].res.val

\* Parsing the text of a jid gives the jid back.
RoundTrips(jid) == Jid_from_str(Jid_to_string(jid)) = [ok |-> TRUE, val |-> jid]

\* Jid::from_phonenumber has refused every text that, after one leading +
\* is removed, has a character that is no decimal digit.
NonDigitsRejected ==
    (/\ pure.fn = "jid" /\ pure.made # NoneOpt /\ pure.made[1].by = "from_phonenumber"
     /\ LET number == IF pure.text # << >> /\ Head(pure.text) = "+"
                      THEN Tail(pure.text) ELSE pure.text
        IN \E i \in DOMAIN number : number[i] \notin {"0", "1", "2", "3", "4", "5", "6", "7", "8", "9"})
        => ~pure.made[1].res.ok

\* C27, as stated: for every Jid value, group or individual, parsing the
\* string produced by formatting it returns the same Jid; and
\* Jid::from_phonenumber rejects every input that, after one leading + is
\* removed, contains a character that is no decimal digit.
C27_EveryJidRoundTrips ==
    /\ Made({"literal", "from_str", "from_phonenumber"}) => RoundTrips(TheMade)
    /\ NonDigitsRejected

\* C27, amended: for every Jid whose id contains no @, group or individual,
\* which includes every Jid that from_str or from_phonenumber returns,
\* parsing the string produced by formatting it returns the same Jid; a Jid
\* whose id contains an @ does not parse back.  Jid::from_phonenumber
\* rejects every input that, after one leading + is removed, contains a
\* character that is no decimal digit.
C27_JidWithoutAtRoundTrips ==
    /\ Made({"literal", "from_str", "from_phonenumber"}) =>
           (RoundTrips(TheMade) <=> \A i \in DOMAIN TheMade.id : TheMade.id[i] # "@")
    /\ Made({"from_str", "from_phonenumber"}) => RoundTrips(TheMade)
    /\ NonDigitsRejected

\* A group jid with an id of two characters has been parsed from its text
\* and formats and parses back to itself.
C27_Witness ==
    /\ Made({"from_str"})
    /\ TheMade.is_group /\ Len(TheMade.id) = 2
    /\ RoundTrips(TheMade)

\* C28: every Jid the library constructs, by from_str or from_phonenumber,
\* has a non-empty id, and Jid::phonenumber returns a value if and only if
\* the Jid is not a group and its id consists only of decimal digits.
C28_JidInvariant ==
    Made({"from_str", "from_phonenumber"}) =>
        /\ TheMade.id # << >>
        /\ (Jid_phonenumber(TheMade) # NoneOpt) <=>
               (~TheMade.is_group /\ \A i \in DOMAIN TheMade.id : is_digit(TheMade.id[i]))

\* The messages among app events, and the Message events among events.
MessagesIn(events) == SelectSeq(events, LAMBDA e : e.e = "Message")
MessageEventsIn(events) == SelectSeq(events, LAMBDA e : e.type = "Message")

\* C29: from_app_message on MessagesEvents(event_type, events) yields, in
\* input order, one Message event per AppEvent::Message, with is_new true
\* if and only if event_type is Relay (false for Set and for no event
\* type); it never yields more events than there are input app events.
C29_MessagesLifted ==
    (pure.fn = "from_app_message" /\ pure.out # NoneOpt) =>
        LET in == MessagesIn(pure.events)
            out == MessageEventsIn(pure.out[1])
        IN /\ Len(out) = Len(in)
           /\ \A i \in DOMAIN out :
                  /\ out[i].msg = in[i].msg
                  /\ out[i].is_new = (pure.event_type = "Relay")
           /\ pure.event_type \in {"Set", None} => \A i \in DOMAIN out : ~out[i].is_new
           /\ Len(pure.out[1]) <= Len(pure.events)

\* An app message without event type carried two messages around an app
\* event that has no event: two Message events came out, in order, both
\* not new.
C29_Witness ==
    /\ pure.fn = "from_app_message" /\ pure.out # NoneOpt
    /\ pure.event_type = None
    /\ pure.events = <<[e |-> "Message", msg |-> "m2"], [e |-> "MessageRead", id |-> MidLong],
                       [e |-> "Message", msg |-> "m1"]>>
    /\ pure.out[1] = <<[type |-> "Message", is_new |-> FALSE, msg |-> "m2"],
                       [type |-> "Message", is_new |-> FALSE, msg |-> "m1"]>>

----------------------------------------------------------------------------
(* Properties of the persistent login.                                     *)

\* The queued frames that carry the JSON request `req`.
QueuedRequests(q, req) ==
    SelectSeq(q, LAMBDA f : /\ FrameKind(f.frame) = "Json"
                            /\ JsonOf(f.frame).req = req)

\* The inbound frame is the response to the takeover request.
IsTakeoverResponse(m) ==
    /\ IsResponseTo(m, "CheckStatus")
    /\ \E i \in DOMAIN QueuedRequests(ws_outbox, "takeover") :
           /\ FrameTag(QueuedRequests(ws_outbox, "takeover")[i].frame) = FrameTag(m)
           /\ QueuedRequests(ws_outbox, "takeover")[i].id = callbacks[FrameTag(m)[1]].reg

\* C30: in a PendingPersistent session, receipt of the takeover response
\* with status 200 makes the engine queue a challenge response signed with
\* the stored mac key, and no challenge response is queued before that
\* takeover response has been received.
C30_ChallengeResponseAfterTakeover ==
    [][lastOp'.op = "recv" =>
          \A m \in InFrames(g_frames) :
              (Received(m) /\ session_state.variant = "PendingPersistent") =>
                  LET before == QueuedRequests(ws_outbox, "challenge")
                      after == QueuedRequests(ws_outbox', "challenge")
                  IN /\ (IsTakeoverResponse(m) /\ JsonOf(m).status = 200) =>
                            /\ Len(after) = Len(before) + 1
                            /\ JsonOf(after[Len(after)].frame).signature.hmac_key =
                                   session_state.persistent_session.mac
                     /\ Len(after) > Len(before) => IsTakeoverResponse(m)]_vars

----------------------------------------------------------------------------
(* Properties of the routing of inbound frames.                            *)

\* C31: a spontaneous ChallengeRequest received while Established or
\* PendingPersistent queues exactly one JSON challenge response under a
\* freshly allocated tag with a CheckStatus callback, signed with the mac
\* key of the session, and does not change the session state; received
\* while PendingNew it queues nothing and fails with InvalidSessionState.
C31_ChallengeAnswered ==
    [][lastOp'.op = "recv" =>
          \A m \in InFrames(g_frames) :
              (Received(m) /\ IsServerMessage(m, "ChallengeRequest")) =>
                  /\ session_state' = session_state
                  /\ IF session_state.variant \in {"Established", "PendingPersistent"}
                     THEN /\ lastOp'.ret = "Ok"
                          /\ QueuedUnder(to_string(tag_counter), Ct("CheckStatus"))
                          /\ tag_counter' = tag_counter + 1
                          /\ LET resp == JsonOf(ws_outbox'[Len(ws_outbox')].frame)
                             IN /\ FrameKind(ws_outbox'[Len(ws_outbox')].frame) = "Json"
                                /\ resp.req = "challenge"
                                /\ resp.signature =
                                       sign_challenge(session_state.persistent_session.mac,
                                                      JsonOf(m).challenge)
                     ELSE /\ lastOp'.ret = "InvalidSessionState"
                          /\ UNCHANGED <<ws_outbox, callbacks, tag_counter, g_frames>>]_vars

\* The server challenged an established session: the challenge response
\* is the newest frame in the queue and the check of its status waits
\* under its tag.
C31_Witness ==
    /\ lastOp.op = "recv" /\ lastOp.kind = "Json" /\ lastOp.ret = "Ok"
    /\ session_state.variant = "Established"
    /\ ws_outbox # << >>
    /\ FrameKind(ws_outbox[Len(ws_outbox)].frame) = "Json"
    /\ JsonOf(ws_outbox[Len(ws_outbox)].frame).req = "challenge"
    /\ JsonOf(ws_outbox[Len(ws_outbox)].frame).signature.hmac_key =
           session_state.persistent_session.mac
    /\ callbacks[g_frames[Len(g_frames)].tag].ct = Ct("CheckStatus")

\* C32: a JSON frame whose tag is in the callback table is handled by that
\* callback only and never read as a spontaneous server message: also when
\* its payload is a ConnectionAck, a ChallengeRequest or a Disconnect, the
\* session state does not change, no session is announced, no challenge is
\* answered and no Disconnected error is returned.
C32_CallbackFramesNotServerMessages ==
    [][lastOp'.op = "recv" =>
          \A m \in InFrames(g_frames) :
              (Received(m) /\ FrameKind(m) = "Json" /\ OnRegisteredTag(m)) =>
                  /\ g_invoked'[callbacks[FrameTag(m)[1]].reg] =
                         g_invoked[callbacks[FrameTag(m)[1]].reg] + 1
                  /\ session_state' = session_state
                  /\ user_jid' = user_jid
                  /\ lastOp'.ret \notin {"Disconnected(Replaced)", "Disconnected(Removed)"}
                  /\ GeneratedOf("SessionEstablished") = << >>
                  /\ QueuedRequests(ws_outbox', "challenge") =
                         QueuedRequests(ws_outbox, "challenge")]_vars

\* A JSON array arrived on tag "0" of a persistent login: the login
\* handler ran and refused it, and the session is still PendingPersistent.
C32_Witness ==
    /\ g_recv = 1
    /\ lastOp.op = "recv" /\ lastOp.kind = "Json" /\ lastOp.tag = Some(to_string(0))
    /\ lastOp.ret = "JsonFieldMissing"
    /\ g_invoked[1] = 1
    /\ session_state.variant = "PendingPersistent"
    /\ to_string(0) \notin DOMAIN callbacks

\* The BinarySimple frame with the tag and the ciphertext of a
\* BinaryEphemeral frame.
AsBinarySimple(m) ==
    Frame(FrameTag(m)[1], [kind |-> "BinarySimple", bytes |-> deserialize(m)[1].payload.bytes])

\* C33: an inbound BinaryEphemeral frame is handled as the BinarySimple
\* frame with the same tag and ciphertext is: decrypted, routed to the
\* callback under its tag or lifted to events, so both leave the same
\* callback table and generate the same events.
C33_EphemeralAsSimple ==
    [][lastOp'.op = "recv" =>
          \A m \in InFrames(g_frames) :
              (Received(m) /\ FrameKind(m) = "BinaryEphemeral") =>
                  LET r == on_message([Self EXCEPT !.response_timer = FALSE, !.g_recv = @ + 1],
                                      AsBinarySimple(m))
                  IN /\ callbacks' = r.c.callbacks
                     /\ outbox' = r.c.outbox
                     /\ lastOp'.ret = r.err]_vars

----------------------------------------------------------------------------
(* Properties of the user jid, the epoch and the tag counter.              *)

\* The user jid is known exactly when the session is established.
JidIffEstablished == (user_jid # NoneOpt) <=> (session_state.variant = "Established")

\* C34: in every reachable state the user jid of the engine is set if and
\* only if the session state is Established; so the handler of a
\* ProcessAck callback never fails with NoJidYet, and an Empty frame that
\* stands for an ack finds no jid before the session is established.
C34_UserJidIffEstablished ==
    /\ []JidIffEstablished
    /\ [][lastOp'.op = "recv" =>
             \A m \in InFrames(g_frames) :
                 Received(m) =>
                     /\ IsResponseTo(m, "ProcessAck") => lastOp'.ret # "NoJidYet"
                     /\ (/\ FrameKind(m) = "Empty" /\ str_len(FrameTag(m)[1]) > 10
                         /\ session_state.variant # "Established") =>
                            lastOp'.ret = "NoJidYet"]_vars

\* The ack of a sent message arrived in an established session and its
\* event names the user jid as the side that sent.
C34_Witness ==
    /\ lastOp.op = "recv" /\ lastOp.kind = "Json" /\ lastOp.ret = "Ok"
    /\ lastOp.tag = Some(MidLong)
    /\ session_state.variant = "Established" /\ user_jid = Some(OwnJid)
    /\ outbox # << >>
    /\ outbox[Len(outbox)].evt.type = "MessageAck"
    /\ outbox[Len(outbox)].evt.ack.level = "Sent"
    /\ outbox[Len(outbox)].evt.ack.own = OwnJid

\* C35: a request that fails when it is applied leaves the epoch and the
\* tag counter at the values they had before the request.
C35_FailedRequestKeepsCounters ==
    [][lastOp'.op = "start_send" =>
          \A req \in Requests :
              (Applied(req) /\ lastOp'.ret # "Ok") =>
                  /\ epoch' = epoch
                  /\ tag_counter' = tag_counter]_vars

\* The requests that are sent as app messages in a binary node.
NodeRequestTypes ==
    {"MessagePlayed", "MessageRead", "SetPresence", "SetStatus", "SetNotifyName",
     "SetProfileBlocked", "ChatAction", "SendMessage", "CreateGroup",
     "ChangeGroupParticipants", "GetMessageHistoryBefore"}

\* C36: every node request that is applied with success increases the
\* epoch by exactly one, whichever request it is.
C36_NodeRequestAddsOneEpoch ==
    [][lastOp'.op = "start_send" =>
          \A req \in Requests :
              (/\ Applied(req)
               /\ lastOp'.ret = "Ok"
               /\ req.type \in NodeRequestTypes) =>
                  epoch' = epoch + 1]_vars

----------------------------------------------------------------------------
(* Properties of the two queues at the edges of the engine.                *)

\* The step makes poll_next return an error: a frame whose handling fails,
\* the end or a failure of the WebSocket, or the response timer.
YieldsError ==
    \/ lastOp'.op = "recv" /\ lastOp'.ret \notin {"Ok", "Panic"}
    \/ lastOp'.op = "end"
    \/ lastOp'.op = "tail" /\ lastOp'.ret = "Timeout"

\* C37: the events of the frames handled before a fatal condition are
\* yielded before the error is: when poll_next returns an error, no event
\* of an earlier frame is waiting in the event queue.
C37_ErrorsBehindEvents ==
    [][YieldsError => \A i \in 1..Len(outbox) : outbox[i].src = 0]_vars

----------------------------------------------------------------------------
(* Properties of the login.                                                 *)

\* C38: a ConnectionAck that fails while the session is PendingNew (no
\* secret, a secret that is not base64, a secret the key derivation
\* rejects) leaves the session state, private key included, and the user
\* jid as they were, so that a later valid ConnectionAck still establishes
\* the session.
C38_FailedAckKeepsPendingSession ==
    [][lastOp'.op = "recv" =>
          \A m \in InFramesMore(g_frames) :
              (/\ Received(m) /\ ~OnRegisteredTag(m)
               /\ IsServerMessage(m, "ConnectionAck")
               /\ session_state.variant = "PendingNew"
               /\ lastOp'.ret # "Ok") =>
                  /\ session_state' = session_state
                  /\ user_jid' = user_jid]_vars

----------------------------------------------------------------------------
(* Properties of the outbound queue under a transport that is ready or     *)
(* not ready.                                                               *)

\* The frames of a queue, by their numbers.
FrameIds(q) == [i \in 1..Len(q) |-> q[i].id]

\* The frames handed to the WebSocket followed by the frames still queued.
Outbound == wire \o FrameIds(ws_outbox)

\* The step is a poll_flush during which the transport is ready or not
\* ready for each frame and does not fail.
FlushedWithoutError ==
    \E n \in 0..MaxFrames, after \in {"Ready", "Pending"}, flushed \in {"Ok", "Pending"} :
        PollFlush(n, after, flushed)

\* C39: under enqueues and flushes in any order, with a transport that is
\* ready for some frames and not ready for others, every frame put in the
\* outbound queue is handed to the WebSocket exactly once: a flush moves
\* frames from the head of the queue to the WebSocket and loses or repeats
\* none, a frame popped while the transport is not ready is back at the
\* head, no other step takes a frame from the queue, and poll_flush
\* reports Ready(Ok) only with the queue empty.
C39_FramesHandedOverOnce ==
    /\ [](\A i, j \in 1..Len(Outbound) : Outbound[i] = Outbound[j] => i = j)
    /\ [][FlushedWithoutError =>
              /\ Outbound' = Outbound
              /\ lastOp'.ret = "Pending" /\ Len(wire') < Len(Outbound) =>
                     /\ ws_outbox' # << >>
                     /\ ws_outbox' = SubSeq(ws_outbox, Len(ws_outbox) - Len(ws_outbox') + 1,
                                            Len(ws_outbox))
              /\ lastOp'.ret = "Ok" => ws_outbox' = << >>]_vars
    /\ [][lastOp'.op # "poll_flush" =>
              /\ wire' = wire
              /\ \A i \in 1..Len(ws_outbox) :
                     \E j \in 1..Len(ws_outbox') : ws_outbox'[j] = ws_outbox[i]]_vars

\* A flush found the transport not ready after it had taken one frame of
\* three: the frame is on the WebSocket and the other two wait in the
\* queue in their order.
C39_Witness ==
    /\ lastOp.op = "poll_flush" /\ lastOp.ret = "Pending"
    /\ Len(wire) = 1 /\ Len(ws_outbox) = 2
    /\ \A i \in 1..2 : wire[1] # ws_outbox[i].id

----------------------------------------------------------------------------
(* Properties of the persistent login.                                      *)

\* While the session is PendingPersistent the init request is the first
\* frame, under tag "0", and the LoginPersistent callback is registered
\* under that tag, and only there, until its response has come.
PersistentLoginUnderTagZero ==
    session_state.variant = "PendingPersistent" =>
        /\ g_frames # << >> /\ g_frames[1].tag = to_string(0)
        /\ g_invoked[1] = 0 =>
               (/\ to_string(0) \in DOMAIN callbacks
                /\ callbacks[to_string(0)].ct = Ct("LoginPersistent"))
        /\ \A t \in DOMAIN callbacks :
               callbacks[t].ct.type = "LoginPersistent" =>
                   (t = to_string(0) /\ callbacks[t].reg = 1)

\* The takeover requests in the outbound queue.
Takeovers == QueuedRequests(ws_outbox, "takeover")

\* C40: on a persistent connection the init request is sent under tag "0"
\* with the LoginPersistent callback.  The takeover request is enqueued at
\* most once, and only by the response to the init request, received with
\* status 200 while the session is PendingPersistent: it goes under the
\* next allocated tag with a CheckStatus callback.  A response with
\* another status enqueues nothing.  The session stays PendingPersistent
\* until a ConnectionAck arrives.
C40_TakeoverAfterInitResponse ==
    /\ []PersistentLoginUnderTagZero
    /\ [](Len(Takeovers) <= 1)
    /\ [][/\ lastOp'.op = "recv" =>
                \A m \in InFrames(g_frames) :
                    (/\ Received(m)
                     /\ IsResponseTo(m, "LoginPersistent")
                     /\ session_state.variant = "PendingPersistent") =>
                        /\ session_state' = session_state
                        /\ IF parse_response_status(JsonOf(m)) = "Ok"
                           THEN /\ lastOp'.ret = "Ok"
                                /\ QueuedUnder(to_string(tag_counter), Ct("CheckStatus"))
                                /\ tag_counter' = tag_counter + 1
                                /\ Len(Takeovers') = 1
                                /\ Takeovers'[1] = ws_outbox'[Len(ws_outbox')]
                           ELSE /\ lastOp'.ret \in {"StatusCode", "JsonFieldMissing"}
                                /\ ws_outbox' = ws_outbox
          /\ Takeovers' # Takeovers =>
                /\ lastOp'.op = "recv" /\ lastOp'.tag = Some(to_string(0))
                /\ session_state.variant = "PendingPersistent"
                /\ g_invoked[1] = 0 /\ g_invoked'[1] = 1
          /\ (session_state.variant = "PendingPersistent" /\ session_state' # session_state) =>
                /\ lastOp'.op = "recv"
                /\ session_state'.variant = "Established"
                /\ \E m \in InFrames(g_frames) :
                       Received(m) /\ ~OnRegisteredTag(m) /\ IsServerMessage(m, "ConnectionAck")]_vars

\* The init response of a persistent login arrived with status 200: the
\* takeover request waits in the queue behind the init request, under tag
\* "1" with the CheckStatus callback, and the session is PendingPersistent.
C40_Witness ==
    /\ lastOp.op = "recv" /\ lastOp.ret = "Ok" /\ lastOp.tag = Some(to_string(0))
    /\ session_state.variant = "PendingPersistent"
    /\ g_invoked[1] = 1
    /\ Len(Takeovers) = 1
    /\ FrameTag(Takeovers[1].frame) = Some(to_string(1))
    /\ to_string(1) \in DOMAIN callbacks
    /\ callbacks[to_string(1)].ct = Ct("CheckStatus")

====
